---- MODULE Spec2Model ----
(***************************************************************************)
(* treemark: the tree entity, its JSON and markdown serializers with their *)
(* deserializers, and the reconstructor that materializes a document on    *)
(* disk.                                                                   *)
(*                                                                         *)
(* A Python str is a sequence of one-character strings, so that strip,     *)
(* split, join and splitext are computed character by character as the     *)
(* library computes them.  A dict is a function whose DOMAIN is its set of *)
(* keys; an Optional value is a set of at most one element.                *)
(***************************************************************************)
EXTENDS Integers, Sequences, FiniteSets, TLC

VARIABLES
    node,             \* the TreeNode handed to a serializer
    keep_extensions,  \* the serializer's keep_extensions argument
    json_obj,         \* what serialize_to_json returned
    flat_list,        \* what flatten_tree_to_paths returned
    md_text,          \* what serialize_to_markdown returned
    tree,             \* the TreeNode a deserializer or parser returned
    reflat,           \* flatten_tree_to_paths of the rebuilt tree
    jdata,            \* the parsed JSON document handed to an importer
    dry_run,          \* recreate_from_json's dry_run argument
    fs,               \* the filesystem: path -> directory or file content
    fs0,              \* the filesystem when recreate_from_json was called
    fs1,              \* the filesystem an earlier call with the same
                      \* arguments left, None when there was none
    work,             \* the calls of recreate_from_json still to run, next first
    raised,           \* the exception the call ended with, "" for none
    scanner,          \* the scanner ScannerFactory returned: "local" or "zip"
    disk,             \* the entry at the path handed to LocalFileSystemScanner
    include_extensions, \* scan's include_extensions argument
    exclude_extensions, \* scan's exclude_extensions argument
    max_concurrency,  \* the scanner's max_concurrency
    archive,          \* the file handed to ZipArchiveScanner
    cause,            \* the __cause__ of the exception raised, "" for none
    frames,           \* the calls of _scan_sync that are open, innermost last
    snapshots,        \* what the scanned path held at the instants of a scan
    output,           \* generate's output argument: "json", "markdown" or "both"
    results,          \* what generate returned, None before it returns
    pc                \* position of the calling code

vars == <<node, keep_extensions, json_obj, flat_list, md_text, tree, reflat,
          jdata, dry_run, fs, fs0, fs1, work, raised, scanner, disk,
          include_extensions, exclude_extensions, max_concurrency, archive,
          cause, frames, snapshots, output, results, pc>>

\* the variables of the export calls, and of the import and recreate calls
exportVars == <<node, keep_extensions, json_obj, flat_list, md_text, reflat>>
importVars == <<jdata>>
recreateVars == <<dry_run, fs, fs0, fs1, work, raised>>
scanVars == <<scanner, disk, include_extensions, exclude_extensions,
              max_concurrency, archive, cause, frames, snapshots, output,
              results>>

(***************************************************************************)
(* Bounds of the model.                                                    *)
(***************************************************************************)
MaxNodes == 4
MaxLegacyChildren == 2
MaxFlat == 2
MaxEntries == 2
MaxConcurrency == 2
MaxInfos == 2
MaxLines == 4
MaxChanges == 2

(***************************************************************************)
(* Python str methods on character sequences.                              *)
(***************************************************************************)
None == {}

Str_a == <<"a">>
Str_dash_b_t == <<"-", "b", ".", "t">>
Str_empty == <<"e", "m", "p", "t", "y">>
Str_virtual_root == <<"_", "_", "v", "i", "r", "t", "u", "a", "l", "_", "r", "o", "o", "t", "_", "_">>

RECURSIVE lstrip(_, _)
lstrip(s, chars) ==
    IF s /= <<>> /\ Head(s) \in chars THEN lstrip(Tail(s), chars) ELSE s

RECURSIVE rstrip(_, _)
rstrip(s, chars) ==
    IF s /= <<>> /\ s[Len(s)] \in chars
    THEN rstrip(SubSeq(s, 1, Len(s) - 1), chars)
    ELSE s

strip(s, chars) == rstrip(lstrip(s, chars), chars)

\* index of the first / last occurrence of character c in s, 0 when absent
find(s, c) ==
    IF \E i \in 1..Len(s) : s[i] = c
    THEN CHOOSE i \in 1..Len(s) : s[i] = c /\ \A j \in 1..(i - 1) : s[j] /= c
    ELSE 0

rfind(s, c) ==
    IF \E i \in 1..Len(s) : s[i] = c
    THEN CHOOSE i \in 1..Len(s) : s[i] = c /\ \A j \in (i + 1)..Len(s) : s[j] /= c
    ELSE 0

RECURSIVE split(_, _)
split(s, sep) ==
    LET i == find(s, sep)
    IN IF i = 0
       THEN <<s>>
       ELSE <<SubSeq(s, 1, i - 1)>> \o split(SubSeq(s, i + 1, Len(s)), sep)

RECURSIVE join(_, _)
join(parts, sep) ==
    IF parts = <<>> THEN <<>>
    ELSE IF Len(parts) = 1 THEN parts[1]
    ELSE parts[1] \o <<sep>> \o join(Tail(parts), sep)

RECURSIVE concat(_)
concat(lists) ==
    IF lists = <<>> THEN <<>> ELSE Head(lists) \o concat(Tail(lists))

endswith(s, suffix) ==
    /\ Len(s) >= Len(suffix)
    /\ SubSeq(s, Len(s) - Len(suffix) + 1, Len(s)) = suffix

startswith(s, prefix) ==
    /\ Len(s) >= Len(prefix)
    /\ SubSeq(s, 1, Len(prefix)) = prefix

\* os.path.splitext(p)[0]: the last dot splits, unless only dots precede it
\* in the last path component
splitext_root(p) ==
    LET sepIndex == rfind(p, "/")
        dotIndex == rfind(p, ".")
    IN IF /\ dotIndex > sepIndex
          /\ \E k \in (sepIndex + 1)..(dotIndex - 1) : p[k] /= "."
       THEN SubSeq(p, 1, dotIndex - 1)
       ELSE p

\* os.path.join(a, b) on POSIX
os_path_join(a, b) ==
    IF startswith(b, <<"/">>) THEN b
    ELSE IF a = <<>> \/ endswith(a, <<"/">>) THEN a \o b
    ELSE a \o <<"/">> \o b

\* dict.get(key, default)
Get(d, key, default) == IF key \in DOMAIN d THEN d[key] ELSE default

(***************************************************************************)
(* The tree entity.                                                        *)
(***************************************************************************)
TreeNode(name, path, is_dir, size, children) ==
    [name |-> name, path |-> path, is_dir |-> is_dir, size |-> size,
     children |-> children]

add_child(parent, child) ==
    [parent EXCEPT !.children = Append(@, child)]

\* the part of a tree the round trips compare: name, is_dir and the children
\* in order, at every node
RECURSIVE Shape(_)
Shape(n) ==
    [name |-> n.name, is_dir |-> n.is_dir,
     children |-> [i \in 1..Len(n.children) |-> Shape(n.children[i])]]

RECURSIVE Nodes(_)
Nodes(n) ==
    {n} \cup UNION {Nodes(n.children[i]) : i \in 1..Len(n.children)}

RECURSIVE NodeCount(_)
RECURSIVE ForestCount(_)
NodeCount(n) == 1 + ForestCount(n.children)
ForestCount(cs) ==
    IF cs = <<>> THEN 0 ELSE NodeCount(Head(cs)) + ForestCount(Tail(cs))

(***************************************************************************)
(* The trees the serializers are run on: every tree of at most MaxNodes    *)
(* nodes over Names, each node a file or a directory (parse_markdown_to_   *)
(* tree and the deserializers also return files that have children).  The  *)
(* root may be a directory with the empty name, as "- /" parses to, or one *)
(* whose name is the scanned path "/".  A file's size is its byte count    *)
(* and a directory's is None, as the scanner sets them, and path is the    *)
(* scanner's path of the entry.                                            *)
(***************************************************************************)
Names == {Str_a, Str_dash_b_t}
SyntheticRootNames == {<<>>, <<"/">>}
Sizes == {5}

Entry(name, is_dir, children) ==
    [name |-> name, is_dir |-> is_dir, children |-> children]

\* the sequences of entries that have k nodes in all
Forests[k \in 0..MaxNodes] ==
    IF k = 0 THEN {<<>>}
    ELSE UNION {
        { <<Entry(nm, d, cs)>> \o f :
            nm \in Names, d \in BOOLEAN, cs \in Forests[j - 1], f \in Forests[k - j] }
        : j \in 1..k }

\* the TreeNode of an entry, as a scan below parent_path gives it
RECURSIVE Scanned(_, _)
Scanned(e, parent_path) ==
    LET path == os_path_join(parent_path, e.name)
    IN TreeNode(e.name, path, e.is_dir,
                IF e.is_dir THEN None ELSE Sizes,
                [i \in 1..Len(e.children) |-> Scanned(e.children[i], path)])

Trees ==
    { Scanned(e, <<"/", "w">>) :
        e \in UNION {
            { Entry(nm, d, cs) : nm \in Names, d \in BOOLEAN } \cup
            { Entry(nm, TRUE, cs) : nm \in SyntheticRootNames }
            : cs \in UNION { Forests[k] : k \in 0..(MaxNodes - 1) } } }

\* the invariant of the data model: a file has no children
TreeInvariant(n) ==
    \A m \in Nodes(n) : ~m.is_dir => m.children = <<>>

\* a tree as a scan of a directory entry gives it: the invariant holds and
\* every name is a non-empty path segment
ScannerLike(n) ==
    /\ TreeInvariant(n)
    /\ \A m \in Nodes(n) : m.name /= <<>> /\ find(m.name, "/") = 0

(***************************************************************************)
(* JSON serializer (json_serializer.py).                                   *)
(***************************************************************************)
\* node_to_tree_dict with the children key written for every node
RECURSIVE node_to_tree_dict_children_always(_, _)
node_to_tree_dict_children_always(n, keep) ==
    [name |-> IF ~keep /\ ~n.is_dir THEN splitext_root(n.name) ELSE n.name,
     type |-> IF n.is_dir THEN "directory" ELSE "file",
     children |-> [i \in 1..Len(n.children) |->
                     node_to_tree_dict_children_always(n.children[i], keep)]]

\* node_to_tree_dict without the test for a file before the extension is cut
RECURSIVE node_to_tree_dict_strip_all(_, _)
node_to_tree_dict_strip_all(n, keep) ==
    LET d == [name |-> IF ~keep THEN splitext_root(n.name) ELSE n.name,
              type |-> IF n.is_dir THEN "directory" ELSE "file"]
    IN IF n.children /= <<>>
       THEN d @@ ("children" :>
                [i \in 1..Len(n.children) |->
                    node_to_tree_dict_strip_all(n.children[i], keep)])
       ELSE d

RECURSIVE node_to_tree_dict(_, _)
node_to_tree_dict(n, keep) ==
    LET display_name ==
            IF ~keep /\ ~n.is_dir THEN splitext_root(n.name) ELSE n.name
        d == [name |-> display_name,
              type |-> IF n.is_dir THEN "directory" ELSE "file"]
    IN IF n.children /= <<>>
       THEN d @@ ("children" :>
                [i \in 1..Len(n.children) |->
                    node_to_tree_dict(n.children[i], keep)])
       ELSE d

RECURSIVE flatten_tree_to_paths(_, _)
flatten_tree_to_paths(n, prefix) ==
    LET current ==
            IF prefix = <<>> THEN n.name ELSE prefix \o <<"/">> \o n.name
    IN IF n.is_dir
       THEN concat([i \in 1..Len(n.children) |->
                       flatten_tree_to_paths(n.children[i], current)])
       ELSE <<current>>

serialize_to_json(n, keep) ==
    [tree |-> node_to_tree_dict(n, keep),
     flat |-> flatten_tree_to_paths(n, <<>>)]

(***************************************************************************)
(* JSON deserializer (json_serializer.py).                                 *)
(***************************************************************************)
\* dict_tree_to_treenode with every child put in front of its siblings
RECURSIVE dict_tree_to_treenode_prepend(_)
dict_tree_to_treenode_prepend(d) ==
    LET name == Get(d, "name", <<>>)
        children == Get(d, "children", <<>>)
    IN TreeNode(name, name, Get(d, "type", "file") = "directory", None,
                [i \in 1..Len(children) |->
                    dict_tree_to_treenode_prepend(children[Len(children) + 1 - i])])

RECURSIVE dict_tree_to_treenode(_)
dict_tree_to_treenode(d) ==
    LET name == Get(d, "name", <<>>)
        type_ == Get(d, "type", "file")
        is_dir == (type_ = "directory")
        children == Get(d, "children", <<>>)
    IN TreeNode(name, name, is_dir, None,
                [i \in 1..Len(children) |-> dict_tree_to_treenode(children[i])])

\* index of the first child of n named part, 0 when there is none
find_child(n, part) ==
    IF \E i \in 1..Len(n.children) : n.children[i].name = part
    THEN CHOOSE i \in 1..Len(n.children) :
            /\ n.children[i].name = part
            /\ \A j \in 1..(i - 1) : n.children[j].name /= part
    ELSE 0

\* the traverse/insert loop of flat_list_to_tree below node_cursor, for the
\* segments that are left; gives node_cursor with the path inserted
RECURSIVE insert_parts(_, _)
insert_parts(node_cursor, parts) ==
    IF parts = <<>> THEN node_cursor
    ELSE LET part == Head(parts)
             is_last == (Len(parts) = 1)
             found == find_child(node_cursor, part)
         IN IF found = 0
            THEN add_child(node_cursor,
                     insert_parts(
                         TreeNode(part, os_path_join(node_cursor.path, part),
                                  ~is_last, None, <<>>),
                         Tail(parts)))
            ELSE [node_cursor EXCEPT
                     !.children[found] = insert_parts(@, Tail(parts))]

\* one pass of the loop over flat_list: root is a set, empty for None
flat_list_step(root, p) ==
    LET parts == SelectSeq(split(strip(p, {"/"}), "/"), LAMBDA part : part /= <<>>)
    IN IF parts = <<>> THEN root
       ELSE LET root1 == IF root = None
                         THEN TreeNode(parts[1], parts[1], TRUE, None, <<>>)
                         ELSE CHOOSE r \in root : TRUE
                root2 == IF parts[1] /= root1.name /\ root1.name /= Str_virtual_root
                         THEN add_child(
                                 TreeNode(Str_virtual_root, <<>>, TRUE, None, <<>>),
                                 root1)
                         ELSE root1
            IN {insert_parts(root2, Tail(parts))}

RECURSIVE flat_list_loop(_, _)
flat_list_loop(root, flat) ==
    IF flat = <<>> THEN root
    ELSE flat_list_loop(flat_list_step(root, Head(flat)), Tail(flat))

flat_list_to_tree(flat) ==
    LET root == flat_list_loop(None, flat)
    IN IF root = None
       THEN TreeNode(Str_empty, <<>>, TRUE, None, <<>>)
       ELSE CHOOSE r \in root : TRUE

\* a parsed JSON document: isa is the Python type json.load gave it
\* ("dict", "list" or "other"), val the dict or the list
Document(isa, val) == [isa |-> isa, val |-> val]

\* bool(x) of a list, None taken as the empty list
truthy(x) == x /= <<>>

RECURSIVE legacy_dict_to_tree(_)
legacy_dict_to_tree(d) ==
    LET name == Get(d, "name", <<>>)
        path == Get(d, "path", name)
        type_ == IF Get(d, "type", "") /= ""
                 THEN d["type"]
                 ELSE IF truthy(Get(d, "children", <<>>))
                      THEN "directory" ELSE "file"
        is_dir == (type_ = "directory")
        children == Get(d, "children", <<>>)
    IN TreeNode(name, path, is_dir, None,
                [i \in 1..Len(children) |-> legacy_dict_to_tree(children[i])])

\* deserialize_json_to_tree with the flat list taken first when it is there,
\* as recreate_from_json takes it
deserialize_json_to_tree_flat_first(data) ==
    IF data.isa = "dict" /\ "flat" \in DOMAIN data.val
    THEN flat_list_to_tree(data.val["flat"])
    ELSE IF data.isa = "dict" /\ "tree" \in DOMAIN data.val
    THEN dict_tree_to_treenode(data.val["tree"])
    ELSE IF data.isa = "list" THEN flat_list_to_tree(data.val)
    ELSE IF data.isa = "dict" THEN legacy_dict_to_tree(data.val)
    ELSE TreeNode(Str_empty, <<>>, TRUE, None, <<>>)

deserialize_json_to_tree(data) ==
    IF data.isa = "dict" /\ ("tree" \in DOMAIN data.val \/ "flat" \in DOMAIN data.val)
    THEN IF "tree" \in DOMAIN data.val
         THEN dict_tree_to_treenode(data.val["tree"])
         ELSE flat_list_to_tree(Get(data.val, "flat", <<>>))
    ELSE IF data.isa = "list" THEN flat_list_to_tree(data.val)
    ELSE IF data.isa = "dict" THEN legacy_dict_to_tree(data.val)
    ELSE TreeNode(Str_empty, <<>>, TRUE, None, <<>>)

(***************************************************************************)
(* Markdown serializer and parser (markdown_serializer.py).                *)
(***************************************************************************)
Whitespace == {" ", "\n", "\t", "\r"}

\* n copies of string s
RECURSIVE repeat(_, _)
repeat(s, n) == IF n <= 0 THEN <<>> ELSE s \o repeat(s, n - 1)

RECURSIVE node_to_markdown_lines(_, _, _)

\* the lines with the extension taken off directory names as well
node_to_markdown_lines_strip_all(n, depth, keep) ==
    LET indent == repeat(<<" ", " ">>, depth)
        prefix == indent \o <<"-", " ">>
        display_name == IF ~keep THEN splitext_root(n.name) ELSE n.name
        entry == IF n.is_dir THEN prefix \o display_name \o <<"/">>
                 ELSE prefix \o display_name
    IN <<entry>> \o
       concat([i \in 1..Len(n.children) |->
                  node_to_markdown_lines(n.children[i], depth + 1, keep)])

node_to_markdown_lines(n, depth, keep) ==
    LET indent == repeat(<<" ", " ">>, depth)
        prefix == indent \o <<"-", " ">>
        display_name ==
            IF ~keep /\ ~n.is_dir THEN splitext_root(n.name) ELSE n.name
        entry == IF n.is_dir THEN prefix \o display_name \o <<"/">>
                 ELSE prefix \o display_name
    IN <<entry>> \o
       concat([i \in 1..Len(n.children) |->
                  node_to_markdown_lines(n.children[i], depth + 1, keep)])

serialize_to_markdown(n, keep) ==
    join(node_to_markdown_lines(n, 0, keep), "\n")

\* str.splitlines(): the pieces between line breaks, without a last empty one
splitlines(s) ==
    LET pieces == split(s, "\n")
    IN IF pieces[Len(pieces)] = <<>>
       THEN SubSeq(pieces, 1, Len(pieces) - 1)
       ELSE pieces

\* re.match(r'\s*- (.+)', line): group 1 as a set, empty when nothing matches
match_root_line(line) ==
    LET rest == lstrip(line, Whitespace)
    IN IF startswith(rest, <<"-", " ">>) /\ Len(rest) >= 3
       THEN {SubSeq(rest, 3, Len(rest))}
       ELSE {}

\* the node reached from root along the child indexes of where
RECURSIVE node_at(_, _)
node_at(root, where) ==
    IF where = <<>> THEN root
    ELSE node_at(root.children[Head(where)], Tail(where))

\* root after add_child(child) on the node reached along where
RECURSIVE add_child_at(_, _, _)
add_child_at(root, where, child) ==
    IF where = <<>> THEN add_child(root, child)
    ELSE [root EXCEPT
            !.children[Head(where)] = add_child_at(@, Tail(where), child)]

\* the while loop that pops the stack entries of depth >= depth
RECURSIVE pop_stack(_, _)
pop_stack(stack, depth) ==
    IF stack /= <<>> /\ stack[Len(stack)][1] >= depth
    THEN pop_stack(SubSeq(stack, 1, Len(stack) - 1), depth)
    ELSE stack

\* one pass of the loop over lines[1:].  st holds root, the stack of
\* (depth, node) with each node given by its child indexes from root, and
\* raised, set when stack[-1] is read from an empty stack (IndexError)
parse_line(st, line) ==
    IF st.raised THEN st
    ELSE LET leading == Len(line) - Len(lstrip(line, {" "}))
             depth == leading \div 2
             stripped == strip(line, Whitespace)
             name_part == rstrip(lstrip(stripped, {"-", " "}), {"/"})
             is_dir == endswith(stripped, <<"/">>)
             new == TreeNode(name_part, name_part, is_dir, None, <<>>)
             stack == pop_stack(st.stack, depth)
         IN IF stack = <<>>
            THEN [st EXCEPT !.raised = TRUE]
            ELSE LET parent == stack[Len(stack)][2]
                     at == Append(parent, Len(node_at(st.root, parent).children) + 1)
                 IN [root |-> add_child_at(st.root, parent, new),
                     stack |-> Append(stack, <<depth, at>>),
                     raised |-> FALSE]

RECURSIVE parse_lines(_, _)
parse_lines(st, lines) ==
    IF lines = <<>> THEN st
    ELSE parse_lines(parse_line(st, Head(lines)), Tail(lines))

\* parse_markdown_to_tree: raised tells that the call ended in an IndexError,
\* root is the tree it returned otherwise
parse_markdown_to_tree(text) ==
    LET lines == SelectSeq(splitlines(text),
                           LAMBDA ln : strip(ln, Whitespace) /= <<>>)
    IN IF lines = <<>>
       THEN [raised |-> FALSE,
             root |-> TreeNode(Str_empty, <<>>, TRUE, None, <<>>)]
       ELSE LET root_line == lines[1]
                m == match_root_line(root_line)
                root_name ==
                    IF m /= {}
                    THEN rstrip(CHOOSE g \in m : TRUE, {"/"})
                    ELSE rstrip(strip(root_line, Whitespace), {"/"})
                root == TreeNode(root_name, root_name,
                                 endswith(strip(root_line, Whitespace), <<"/">>),
                                 None, <<>>)
                st == parse_lines([root |-> root, stack |-> <<<<0, <<>>>>>>,
                                   raised |-> FALSE],
                                  Tail(lines))
            IN [raised |-> st.raised, root |-> st.root]

(***************************************************************************)
(* Export and re-import of a tree as JSON: serialize_to_json, then         *)
(* deserialize_json_to_tree on what it returned; and flatten_tree_to_paths *)
(* followed by flat_list_to_tree and flatten_tree_to_paths again.          *)
(***************************************************************************)
\* nothing exported yet, nothing imported yet
ExportIdle ==
    /\ keep_extensions = TRUE
    /\ json_obj = <<>>
    /\ flat_list = <<>>
    /\ md_text = <<>>
    /\ reflat = <<>>

ImportIdle ==
    /\ jdata = <<>>

RecreateIdle ==
    /\ dry_run = TRUE
    /\ fs = <<>>
    /\ fs0 = <<>>
    /\ fs1 = None
    /\ work = <<>>
    /\ raised = ""

ScanIdle ==
    /\ scanner = "local"
    /\ disk = None
    /\ include_extensions = <<>>
    /\ exclude_extensions = <<>>
    /\ max_concurrency = 10
    /\ archive = None
    /\ cause = ""
    /\ frames = <<>>
    /\ snapshots = {}
    /\ output = "both"
    /\ results = None

InitJson ==
    /\ node \in Trees
    /\ ExportIdle
    /\ ImportIdle
    /\ RecreateIdle
    /\ ScanIdle
    /\ tree = None
    /\ pc = "start"

SerializeToJson ==
    /\ pc = "start"
    /\ \E keep \in BOOLEAN :
          /\ keep_extensions' = keep
          /\ json_obj' = serialize_to_json(node, keep)
    /\ pc' = "serialized"
    /\ UNCHANGED <<node, flat_list, md_text, tree, reflat, importVars, recreateVars, scanVars>>

DeserializeJson ==
    /\ pc = "serialized"
    /\ tree' = deserialize_json_to_tree(Document("dict", json_obj))
    /\ pc' = "deserialized"
    /\ UNCHANGED <<exportVars, importVars, recreateVars, scanVars>>

Flatten ==
    /\ pc = "start"
    /\ flat_list' = flatten_tree_to_paths(node, <<>>)
    /\ pc' = "flattened"
    /\ UNCHANGED <<node, keep_extensions, json_obj, md_text, tree, reflat, importVars, recreateVars, scanVars>>

FlatListToTree ==
    /\ pc = "flattened"
    /\ tree' = flat_list_to_tree(flat_list)
    /\ pc' = "rebuilt"
    /\ UNCHANGED <<exportVars, importVars, recreateVars, scanVars>>

Reflatten ==
    /\ pc = "rebuilt"
    /\ reflat' = flatten_tree_to_paths(tree, <<>>)
    /\ pc' = "reflattened"
    /\ UNCHANGED <<node, keep_extensions, json_obj, flat_list, md_text, tree, importVars, recreateVars, scanVars>>

NextJson ==
    \/ SerializeToJson
    \/ DeserializeJson
    \/ Flatten
    \/ FlatListToTree
    \/ Reflatten

SpecJson == InitJson /\ [][NextJson]_vars

(***************************************************************************)
(* Properties of the JSON export and re-import.                            *)
(***************************************************************************)
HasNestedDirectory(n) ==
    \E m \in Nodes(n) : m /= n /\ m.is_dir /\ m.children /= <<>>

\* C1: JSON round trip.  deserialize_json_to_tree of what
\* serialize_to_json(t, keep_extensions = true) returned has, at every node,
\* the name, the is_dir and the children, in order, of t; path and size are
\* not compared.
C1_JsonRoundTrip ==
    (pc = "deserialized" /\ keep_extensions) => Shape(tree) = Shape(node)

C1_Witness ==
    /\ pc = "deserialized" /\ keep_extensions
    /\ NodeCount(node) >= 4
    /\ HasNestedDirectory(node)
    /\ \E m \in Nodes(node) : ~m.is_dir /\ m.size /= None
    /\ tree.path /= node.path
    /\ \A m \in Nodes(tree) : m.size = None

RECURSIVE UniqueSiblingNames(_)
UniqueSiblingNames(n) ==
    /\ \A i, j \in 1..Len(n.children) :
          n.children[i].name = n.children[j].name => i = j
    /\ \A i \in 1..Len(n.children) : UniqueSiblingNames(n.children[i])

\* C3: flat-list idempotence.  For every tree t with unique sibling names,
\* flatten_tree_to_paths(flat_list_to_tree(flatten_tree_to_paths(t))) is
\* flatten_tree_to_paths(t): the same paths in the same order.
\* Stated for the trees a scan gives.
C3_FlatListIdempotent ==
    (pc = "reflattened" /\ UniqueSiblingNames(node) /\ ScannerLike(node))
        => reflat = flat_list

\* the keys of tree dict d, node by node along n
RECURSIVE TreeDictKeysMatch(_, _)
TreeDictKeysMatch(d, n) ==
    /\ DOMAIN d = {"name", "type"}
                    \cup (IF Len(n.children) >= 1 THEN {"children"} ELSE {})
    /\ d["type"] = (IF n.is_dir THEN "directory" ELSE "file")
    /\ "children" \in DOMAIN d =>
          /\ d["children"] /= <<>>
          /\ Len(d["children"]) = Len(n.children)
          /\ \A i \in 1..Len(n.children) :
                TreeDictKeysMatch(d["children"][i], n.children[i])

\* C8: in the tree section of serialize_to_json every node has exactly the
\* keys name and type (type "directory" iff is_dir), plus children iff the
\* node has a child: no path key, no size key, no empty children list.
C8_TreeSectionKeys ==
    pc = "serialized" => TreeDictKeysMatch(json_obj["tree"], node)

C8_Witness ==
    /\ pc = "serialized"
    /\ HasNestedDirectory(node)
    /\ \E m \in Nodes(node) : m.is_dir /\ m.children = <<>>
    /\ \E m \in Nodes(node) : ~m.is_dir /\ m.size /= None

\* the entries the flat section is said to hold: one for each file node, in
\* depth-first order, the names from the root down joined with "/"
RECURSIVE FileEntries(_, _)
FileEntries(n, above) ==
    LET here == Append(above, n.name)
    IN (IF n.is_dir THEN <<>> ELSE <<join(here, "/")>>)
       \o concat([i \in 1..Len(n.children) |-> FileEntries(n.children[i], here)])

\* C9: the flat section of serialize_to_json(t) has exactly one entry for
\* each file node of t, in depth-first order; each is the names on the path
\* from the root to the file joined with "/"; no directory has an entry; the
\* first "/"-separated segment of every entry is the root's own name.
\* Stated for the trees that satisfy the invariant of the data model.
C9_FlatSection ==
    (pc = "serialized" /\ TreeInvariant(node)) =>
        /\ json_obj["flat"] = FileEntries(node, <<>>)
        /\ \A i \in 1..Len(json_obj["flat"]) :
              Head(split(json_obj["flat"][i], "/")) = node.name

\* the names of tree dict d are those of n, a file's without its extension
RECURSIVE NamesWithoutExtension(_, _)
NamesWithoutExtension(d, n) ==
    /\ d["name"] = (IF n.is_dir THEN n.name ELSE splitext_root(n.name))
    /\ Len(Get(d, "children", <<>>)) = Len(n.children)
    /\ \A i \in 1..Len(n.children) :
          NamesWithoutExtension(d["children"][i], n.children[i])

\* C10: with keep_extensions = false, serialize_to_json cuts the extension
\* from the names of the file nodes of the tree section only (a directory
\* keeps its name, dot or not), and the flat section is the one produced
\* with keep_extensions = true.
C10_KeepExtensionsFalse ==
    (pc = "serialized" /\ ~keep_extensions) =>
        /\ NamesWithoutExtension(json_obj["tree"], node)
        /\ json_obj["flat"] = serialize_to_json(node, TRUE)["flat"]

C10_Witness ==
    /\ pc = "serialized" /\ ~keep_extensions
    /\ \E m \in Nodes(node) :
          /\ m /= node /\ ~m.is_dir /\ m.name = Str_dash_b_t
          /\ splitext_root(m.name) = <<"-", "b">>
    /\ \E m \in Nodes(node) : m.is_dir /\ m.name = Str_dash_b_t
    /\ \E i \in 1..Len(json_obj["flat"]) :
          endswith(json_obj["flat"][i], <<".", "t">>)

(***************************************************************************)
(* Export and re-import of a tree as markdown: serialize_to_markdown, then *)
(* parse_markdown_to_tree on the text it returned.                         *)
(***************************************************************************)
SerializeToMarkdown ==
    /\ pc = "start"
    /\ \E keep \in BOOLEAN :
          /\ keep_extensions' = keep
          /\ md_text' = serialize_to_markdown(node, keep)
    /\ pc' = "markdown"
    /\ UNCHANGED <<node, json_obj, flat_list, tree, reflat, importVars, recreateVars, scanVars>>

\* the call returns a tree, or ends in the IndexError of stack[-1]
ParseMarkdown ==
    /\ pc = "markdown"
    /\ LET r == parse_markdown_to_tree(md_text)
       IN IF r.raised
          THEN pc' = "raised" /\ tree' = tree
          ELSE pc' = "parsed" /\ tree' = r.root
    /\ UNCHANGED <<exportVars, importVars, recreateVars, scanVars>>

NextMd ==
    \/ SerializeToMarkdown
    \/ ParseMarkdown

SpecMd == InitJson /\ [][NextMd]_vars

\* the names the markdown round trip is stated for: no "/" and no leading
\* or trailing whitespace
PlainName(name) ==
    /\ find(name, "/") = 0
    /\ strip(name, Whitespace) = name

\* C2: markdown round trip.  For every tree t whose names hold no "/" and
\* no leading or trailing whitespace, parse_markdown_to_tree of what
\* serialize_to_markdown(t, keep_extensions = true) returned has, at every
\* node, the name, the is_dir and the children, in order, of t.
\* Stated for the trees a scan gives.
C2_MarkdownRoundTrip ==
    (/\ pc \in {"parsed", "raised"} /\ keep_extensions
     /\ \A m \in Nodes(node) : PlainName(m.name)
     /\ ScannerLike(node))
        => (pc = "parsed" /\ Shape(tree) = Shape(node))

(***************************************************************************)
(* Import of a JSON document: deserialize_json_to_tree on a document of    *)
(* each shape.                                                             *)
(***************************************************************************)
\* dicts with the key or without it
OptName == {<<>>} \cup { ("name" :> nm) : nm \in Names }
OptPath == {<<>>, ("path" :> <<"p">>)}
OptType == {<<>>} \cup { ("type" :> ty) : ty \in {"directory", "file"} }
OptNoChildren == {<<>>, ("children" :> <<>>)}

\* legacy nodes without children, and those with up to MaxLegacyChildren
LegacyLeaves ==
    { a @@ b @@ c @@ d :
        a \in OptName, b \in OptPath, c \in OptType, d \in OptNoChildren }

LegacyChildLists ==
    UNION { [1..k -> { c @@ d : c \in OptType, d \in OptNoChildren }]
            : k \in 1..MaxLegacyChildren }

LegacyDicts ==
    LegacyLeaves \cup
    { a @@ c @@ ("children" :> cs) :
        a \in OptName, c \in OptType, cs \in LegacyChildLists }

\* flat lists of up to MaxFlat paths
FlatPaths ==
    { <<"x">>, <<"x", "/", "y">>, <<"y", "/", "x">>, <<"/", "x", "/", "/", "y", "/">>, <<>> }

FlatLists == UNION { [1..k -> FlatPaths] : k \in 0..MaxFlat }

\* nested tree dicts: the exported ones, and some with keys left out
TreeDicts ==
    { node_to_tree_dict(t, TRUE) :
        t \in { Scanned(Entry(nm, d, cs), <<>>) :
                    nm \in Names, d \in BOOLEAN,
                    cs \in Forests[0] \cup Forests[1] } }
    \cup { a @@ c : a \in OptName, c \in OptType }

\* documents by what json.load returns: an object, an array, another value
DictDocuments ==
    { Document("dict", ("tree" :> t) @@ ("flat" :> f)) :
        t \in TreeDicts, f \in FlatLists }
    \cup { Document("dict", ("tree" :> t)) : t \in TreeDicts }
    \cup { Document("dict", ("flat" :> f)) : f \in FlatLists }
    \cup { Document("dict", d) : d \in LegacyDicts }

ListDocuments == { Document("list", f) : f \in FlatLists }

OtherDocuments == { Document("other", <<>>) }

InitImport ==
    /\ \/ jdata \in DictDocuments
       \/ jdata \in ListDocuments
       \/ jdata \in OtherDocuments
    /\ node = None
    /\ ExportIdle
    /\ RecreateIdle
    /\ ScanIdle
    /\ tree = None
    /\ pc = "start"

Deserialize ==
    /\ pc = "start"
    /\ tree' = deserialize_json_to_tree(jdata)
    /\ pc' = "imported"
    /\ UNCHANGED <<exportVars, importVars, recreateVars, scanVars>>

NextImport == Deserialize

SpecImport == InitImport /\ [][NextImport]_vars

\* C4: deserialize_json_to_tree of the empty object {} returns a synthetic
\* node named "empty" with is_dir = true and no children.
C4_EmptyObject ==
    (pc = "imported" /\ jdata.isa = "dict" /\ DOMAIN jdata.val = {}) =>
        /\ tree.name = Str_empty
        /\ tree.is_dir
        /\ tree.children = <<>>

\* n is legacy node d: its name, its own path, a directory iff type says so
\* or, without type, iff children are there and not empty
RECURSIVE LegacyDescribes(_, _)
LegacyDescribes(d, n) ==
    /\ n.name = Get(d, "name", <<>>)
    /\ n.path = Get(d, "path", n.name)
    /\ n.is_dir = (IF "type" \in DOMAIN d
                   THEN d["type"] = "directory"
                   ELSE "children" \in DOMAIN d /\ d["children"] /= <<>>)
    /\ Len(n.children) = Len(Get(d, "children", <<>>))
    /\ \A i \in 1..Len(n.children) :
          LegacyDescribes(d["children"][i], n.children[i])

PathParts(p) ==
    SelectSeq(split(strip(p, {"/"}), "/"), LAMBDA part : part /= <<>>)

\* the segment lists of the paths of flat that have a segment, in order
PartsOf(flat) ==
    LET all == [i \in 1..Len(flat) |-> PathParts(flat[i])]
    IN SelectSeq(all, LAMBDA parts : parts /= <<>>)

\* the nodes reached from n by matching parts by name, child by child
RECURSIVE NodesAt(_, _)
NodesAt(n, parts) ==
    IF parts = <<>> THEN {n}
    ELSE UNION { NodesAt(n.children[i], Tail(parts)) :
                    i \in { j \in 1..Len(n.children) :
                               n.children[j].name = Head(parts) } }

\* the names of the nodes below n
RECURSIVE NamesBelow(_)
NamesBelow(n) ==
    UNION { {n.children[i].name} \cup NamesBelow(n.children[i]) :
               i \in 1..Len(n.children) }

\* the paths of flat whose first segment is not that of the first path
Mismatching(flat) ==
    { i \in 1..Len(PartsOf(flat)) : PartsOf(flat)[i][1] /= PartsOf(flat)[1][1] }

\* C21: virtual-root promotion in flat_list_to_tree happens at most once.
\* When a path's first segment differs from the root's name, the root built
\* so far becomes the first child of a new root named "__virtual_root__";
\* every path with a mismatching first segment is attached under that
\* virtual root, its own first segment included, and no virtual root is
\* nested in another.
C21_VirtualRootOnce ==
    (pc = "imported" /\ jdata.isa = "list" /\ Mismatching(jdata.val) /= {}) =>
        /\ tree.name = Str_virtual_root
        /\ tree.children /= <<>>
        /\ tree.children[1].name = PartsOf(jdata.val)[1][1]
        /\ Str_virtual_root \notin NamesBelow(tree)
        /\ \A i \in Mismatching(jdata.val) :
              NodesAt(tree, PartsOf(jdata.val)[i]) /= {}

\* the nodes of tree that a path's first k segments lead to: the root stands
\* for the first segment, a virtual root for none
Reached(t, parts, k) ==
    IF t.name = Str_virtual_root
    THEN NodesAt(t, SubSeq(parts, 1, k))
    ELSE IF t.name = parts[1] THEN NodesAt(t, SubSeq(parts, 2, k)) ELSE {}

\* C22: for every path of the list that is not empty the tree returned by
\* flat_list_to_tree holds, matched by name from the root, a directory node
\* for every segment but the last and a file node for the last; no node has
\* two children of the same name.
C22_PathsPresent ==
    (pc = "imported" /\ jdata.isa = "list") =>
        /\ UniqueSiblingNames(tree)
        /\ \A i \in 1..Len(PartsOf(jdata.val)) :
              LET parts == PartsOf(jdata.val)[i]
              IN \A k \in 1..Len(parts) :
                    /\ Reached(tree, parts, k) /= {}
                    /\ \A n \in Reached(tree, parts, k) :
                          n.is_dir = (k < Len(parts))

(***************************************************************************)
(* Import of markdown text as a person may have written it: some lines,    *)
(* joined by line breaks.                                                  *)
(***************************************************************************)
MarkdownLines ==
    { <<"-", " ", "r", "o", "o", "t", "/">>,
      <<" ", " ", "-", " ", "a", ".", "t", "x", "t">>,
      <<" ", " ", "-", " ", "s", "u", "b", "/">>,
      <<" ", " ", " ", " ", "-", " ", "b", ".", "t", "x", "t">>,
      <<>>,
      <<"-", " ", "a">>,
      <<" ", " ", " ", " ", " ", " ", "-", " ", "c">> }

Texts ==
    { join(ls, "\n") : ls \in UNION { [1..k -> MarkdownLines] : k \in 1..MaxLines } }

InitParse ==
    /\ md_text \in Texts
    /\ node = None
    /\ keep_extensions = TRUE
    /\ json_obj = <<>>
    /\ flat_list = <<>>
    /\ reflat = <<>>
    /\ ImportIdle
    /\ RecreateIdle
    /\ ScanIdle
    /\ tree = None
    /\ pc = "markdown"

NextParse == ParseMarkdown

SpecParse == InitParse /\ [][NextParse]_vars

\* the lines of the text that are not blank
NonBlankLines(text) ==
    SelectSeq(split(text, "\n"), LAMBDA ln : strip(ln, Whitespace) /= <<>>)

\* C19: the tree parse_markdown_to_tree returns satisfies the invariant of
\* the data model: a node with is_dir = false has no children.
C19_TreeInvariant ==
    pc = "parsed" => TreeInvariant(tree)

\* C20: parse_markdown_to_tree is total on texts with a line that is not
\* blank: it returns a tree, without raising, that has one node for each
\* line that is not blank.
C20_LenientParse ==
    (pc /= "markdown" /\ NonBlankLines(md_text) /= <<>>)
        => /\ pc = "parsed"
           /\ NodeCount(tree) = Len(NonBlankLines(md_text))

\* the nodes of n in pre-order, each with its depth below the root at d
RECURSIVE Preorder(_, _)
Preorder(n, d) ==
    <<[node |-> n, depth |-> d]>> \o
    concat([i \in 1..Len(n.children) |-> Preorder(n.children[i], d + 1)])

\* the line of node n at depth d: 2*d spaces, "- ", the display name, and
\* "/" for a directory; only a file's display name loses its extension
MarkdownLine(n, d, keep) ==
    [i \in 1..(2 * d) |-> " "] \o <<"-", " ">>
    \o (IF keep \/ n.is_dir THEN n.name ELSE splitext_root(n.name))
    \o (IF n.is_dir THEN <<"/">> ELSE <<>>)

\* C12: serialize_to_markdown(t) is one line per node of t in pre-order,
\* joined by single newlines: the line of a node at depth d is 2*d spaces,
\* "- ", the display name, then "/" iff the node is a directory; no line
\* is blank; with keep_extensions = false only files lose their extension.
C12_MarkdownLines ==
    pc /= "start" =>
        LET lines == split(md_text, "\n")
            order == Preorder(node, 0)
        IN /\ Len(lines) = Len(order)
           /\ \A i \in 1..Len(order) :
                /\ lines[i] = MarkdownLine(order[i].node, order[i].depth,
                                           keep_extensions)
                /\ strip(lines[i], Whitespace) /= <<>>

\* a tree with directory -b.t holding file -b.t below the root has been
\* serialized with keep_extensions = false
C12_Witness ==
    /\ pc = "markdown" /\ ~keep_extensions
    /\ node.is_dir /\ Len(node.children) > 0
    /\ node.children[1].is_dir /\ node.children[1].name = Str_dash_b_t
    /\ Len(node.children[1].children) > 0
    /\ ~node.children[1].children[1].is_dir
    /\ node.children[1].children[1].name = Str_dash_b_t

(***************************************************************************)
(* The filesystem under the reconstructor.  A path of the filesystem is    *)
(* the sequence of its segments from the working directory <<>>, or from   *)
(* the root when its first segment is "/"; fs maps each existing path to a *)
(* directory or to a file and its content.                                 *)
(***************************************************************************)
Dest == <<"D">>
OldContent == <<"o", "l", "d">>

Dir == [is_dir |-> TRUE, content |-> <<>>]
File(content) == [is_dir |-> FALSE, content |-> content]

\* the working directory, its parent and the root are there in every
\* filesystem
BaseFs == (<<>> :> Dir) @@ (<<<<".", ".">>>> :> Dir) @@ (<<<<"/">>>> :> Dir)

\* the place one step of the kernel's walk leads to from place at: ".."
\* leads to the parent, the root being its own parent; a place above the
\* working directory is named by its ".." steps
step_to(at, seg) ==
    IF seg /= <<".", ".">> THEN Append(at, seg)
    ELSE IF at = <<<<"/">>>> THEN at
    ELSE IF at = <<>> \/ at[Len(at)] = <<".", ".">> THEN Append(at, seg)
    ELSE SubSeq(at, 1, Len(at) - 1)

\* the places the walk passes from place at along segs, in order
RECURSIVE walk(_, _)
walk(at, segs) ==
    IF segs = <<>> THEN <<>>
    ELSE <<step_to(at, Head(segs))>> \o walk(step_to(at, Head(segs)), Tail(segs))

\* the places the kernel passes for path string p, the last being the one
\* that p names
Visited(p) ==
    LET segs == SelectSeq(split(p, "/"),
                          LAMBDA seg : seg /= <<>> /\ seg /= <<".">>)
    IN walk(IF startswith(p, <<"/">>) THEN <<<<"/">>>> ELSE <<>>, segs)

\* the place path string p names
resolve(p) ==
    IF Visited(p) /= <<>> THEN Visited(p)[Len(Visited(p))]
    ELSE IF startswith(p, <<"/">>) THEN <<<<"/">>>> ELSE <<>>

Prefixes(path) == { SubSeq(path, 1, k) : k \in 1..Len(path) }

exists(f, path) == path \in DOMAIN f
isdir(f, path) == path \in DOMAIN f /\ f[path].is_dir

\* os.path.dirname(p)
os_path_dirname(p) ==
    LET head == SubSeq(p, 1, rfind(p, "/"))
    IN IF head /= <<>> /\ rstrip(head, {"/"}) /= <<>>
       THEN rstrip(head, {"/"})
       ELSE head

\* os.path.join(a, *parts)
RECURSIVE os_path_join_all(_, _)
os_path_join_all(a, parts) ==
    IF parts = <<>> THEN a
    ELSE os_path_join_all(os_path_join(a, Head(parts)), Tail(parts))

\* os.makedirs(p) without exist_ok: a directory that is there is an error
os_makedirs_not_exist_ok(f, p) ==
    LET passed == UNION { Prefixes(Visited(p)[i]) : i \in 1..Len(Visited(p)) }
    IN IF p = <<>> \/ exists(f, resolve(p))
          \/ \E q \in passed : exists(f, q) /\ ~isdir(f, q)
       THEN [ok |-> FALSE, fs |-> f]
       ELSE [ok |-> TRUE,
             fs |-> [q \in DOMAIN f \cup passed |->
                        IF q \in DOMAIN f THEN f[q] ELSE Dir]]

\* os.makedirs(p, exist_ok=True): ok is false when it raises OSError (the
\* empty path, or a file where a directory is needed), and nothing is
\* created then, since a file has no missing ancestors
os_makedirs(f, p) ==
    LET passed == UNION { Prefixes(Visited(p)[i]) : i \in 1..Len(Visited(p)) }
    IN IF p = <<>> \/ \E q \in passed : exists(f, q) /\ ~isdir(f, q)
       THEN [ok |-> FALSE, fs |-> f]
       ELSE [ok |-> TRUE,
             fs |-> [q \in DOMAIN f \cup passed |->
                        IF q \in DOMAIN f THEN f[q] ELSE Dir]]

\* open(p, 'w') and write(content): ok is false when open raises OSError
open_w_write(f, p, content) ==
    LET path == resolve(p)
    IN IF \/ p = <<>>
          \/ endswith(p, <<"/">>)
          \/ path \in DOMAIN BaseFs
          \/ ~isdir(f, SubSeq(path, 1, Len(path) - 1))
          \/ \E i \in 1..(Len(Visited(p)) - 1) : ~isdir(f, Visited(p)[i])
          \/ isdir(f, path)
       THEN [ok |-> FALSE, fs |-> f]
       ELSE [ok |-> TRUE,
             fs |-> [q \in DOMAIN f \cup {path} |->
                        IF q = path THEN File(content) ELSE f[q]]]

\* open(p, 'a') and write(content): what is in the file stays
open_a_write(f, p, content) ==
    LET r == open_w_write(f, p, content)
        path == resolve(p)
    IN IF r.ok /\ exists(f, path)
       THEN [ok |-> TRUE,
             fs |-> [r.fs EXCEPT ![path] = File(f[path].content \o content)]]
       ELSE r

\* write_text_file with the file opened for append
write_text_file_append(f, path, content) ==
    LET made == os_makedirs(f, os_path_dirname(path))
    IN IF made.ok THEN open_a_write(made.fs, path, content) ELSE made

\* write_text_file(path, content): ok is false when it raises
\* RepositoryError
write_text_file(f, path, content) ==
    LET made == os_makedirs(f, os_path_dirname(path))
    IN IF made.ok THEN open_w_write(made.fs, path, content) ELSE made

(***************************************************************************)
(* The reconstructor.  The calls still to be made are the items of work,   *)
(* the next one first: an entry of the flat list, a node of the nested     *)
(* tree with the directory it goes into, or a node of a legacy document.   *)
(***************************************************************************)
FlatItem(rel) == [kind |-> "flat", rel |-> rel]
TreeItem(d, dest) == [kind |-> "tree", node |-> d, dest |-> dest]
LegacyItem(d, dest) == [kind |-> "legacy", node |-> d, dest |-> dest]

FlatItems(flat) == [i \in 1..Len(flat) |-> FlatItem(flat[i])]
LegacyItems(children, dest) ==
    [i \in 1..Len(children) |-> LegacyItem(children[i], dest)]

\* one entry of the flat list, created also in a dry run
create_from_flat_list_no_dry(f, rel, dest, dry) ==
    LET target == os_path_join_all(dest, split(strip(rel, {"/"}), "/"))
        made == os_makedirs(f, os_path_dirname(target))
    IN IF made.ok THEN write_text_file(made.fs, target, <<>>) ELSE made

\* one entry of the flat list in _create_from_flat_list: ok is false when
\* it raises RepositoryError
create_from_flat_list(f, rel, dest, dry) ==
    LET target == os_path_join_all(dest, split(strip(rel, {"/"}), "/"))
        made == os_makedirs(f, os_path_dirname(target))
    IN IF dry THEN [ok |-> TRUE, fs |-> f]
       ELSE IF made.ok THEN write_text_file(made.fs, target, <<>>)
       ELSE made

\* _create_from_tree going into the children of a directory node without
\* creating the directory first
create_from_tree_children_first(f, d, dest, dry) ==
    LET name == Get(d, "name", <<>>)
        node_type == Get(d, "type", "file")
        current_path == IF name /= <<>> THEN os_path_join(dest, name) ELSE dest
        children == Get(d, "children", <<>>)
    IN IF node_type = "directory"
       THEN [ok |-> TRUE, fs |-> f,
             calls |-> [i \in 1..Len(children) |->
                           TreeItem(children[i], current_path)]]
       ELSE LET made == os_makedirs(f, os_path_dirname(current_path))
                written == IF dry THEN [ok |-> TRUE, fs |-> f]
                           ELSE IF made.ok
                           THEN write_text_file(made.fs, current_path, <<>>)
                           ELSE made
            IN [ok |-> written.ok, fs |-> written.fs, calls |-> <<>>]

\* one call of _create_from_tree, up to the calls for the children: ok is
\* false when it raises RepositoryError
create_from_tree(f, d, dest, dry) ==
    LET name == Get(d, "name", <<>>)
        node_type == Get(d, "type", "file")
        current_path == IF name /= <<>> THEN os_path_join(dest, name) ELSE dest
        children == Get(d, "children", <<>>)
    IN IF node_type = "directory"
       THEN LET made == IF dry THEN [ok |-> TRUE, fs |-> f]
                        ELSE os_makedirs(f, current_path)
            IN [ok |-> made.ok, fs |-> made.fs,
                calls |-> IF made.ok
                          THEN [i \in 1..Len(children) |->
                                   TreeItem(children[i], current_path)]
                          ELSE <<>>]
       ELSE LET made == os_makedirs(f, os_path_dirname(current_path))
                written == IF dry THEN [ok |-> TRUE, fs |-> f]
                           ELSE IF made.ok
                           THEN write_text_file(made.fs, current_path, <<>>)
                           ELSE made
            IN [ok |-> written.ok, fs |-> written.fs, calls |-> <<>>]

\* legacy_create going into the children with the target of their parent as
\* the destination
legacy_create_below_parent(f, d, dest, dry) ==
    LET p == Get(d, "path", <<>>)
        rel == strip(p, {"/", "\\"})
        target == os_path_join_all(dest, split(rel, "/"))
        children == Get(d, "children", <<>>)
    IN IF p = <<>> THEN [error |-> "", fs |-> f, calls |-> <<>>]
       ELSE IF Get(d, "type", "") = "directory"
       THEN LET made == IF dry THEN [ok |-> TRUE, fs |-> f]
                        ELSE os_makedirs(f, target)
            IN [error |-> IF made.ok THEN "" ELSE "OSError", fs |-> made.fs,
                calls |-> IF made.ok THEN LegacyItems(children, target)
                          ELSE <<>>]
       ELSE LET made == os_makedirs(f, os_path_dirname(target))
                written == write_text_file(made.fs, target, <<>>)
            IN IF dry THEN [error |-> "", fs |-> f, calls |-> <<>>]
               ELSE IF ~made.ok
               THEN [error |-> "OSError", fs |-> f, calls |-> <<>>]
               ELSE [error |-> IF written.ok THEN "" ELSE "RepositoryError",
                     fs |-> written.fs, calls |-> <<>>]

\* one call of legacy_create, up to the calls for the children: error is
\* the exception it raises, "" when it returns
legacy_create(f, d, dest, dry) ==
    LET p == Get(d, "path", <<>>)
        rel == strip(p, {"/", "\\"})
        target == os_path_join_all(dest, split(rel, "/"))
        children == Get(d, "children", <<>>)
    IN IF p = <<>> THEN [error |-> "", fs |-> f, calls |-> <<>>]
       ELSE IF Get(d, "type", "") = "directory"
       THEN LET made == IF dry THEN [ok |-> TRUE, fs |-> f]
                        ELSE os_makedirs(f, target)
            IN [error |-> IF made.ok THEN "" ELSE "OSError", fs |-> made.fs,
                calls |-> IF made.ok THEN LegacyItems(children, dest)
                          ELSE <<>>]
       ELSE LET made == os_makedirs(f, os_path_dirname(target))
                written == write_text_file(made.fs, target, <<>>)
            IN IF dry THEN [error |-> "", fs |-> f, calls |-> <<>>]
               ELSE IF ~made.ok
               THEN [error |-> "OSError", fs |-> f, calls |-> <<>>]
               ELSE [error |-> IF written.ok THEN "" ELSE "RepositoryError",
                     fs |-> written.fs, calls |-> <<>>]

\* the dispatch with tree looked for before flat
recreate_from_json_tree_first(data) ==
    IF data.isa = "dict" /\ "tree" \in DOMAIN data.val
    THEN <<TreeItem(data.val["tree"], Dest)>>
    ELSE IF data.isa = "dict" /\ "flat" \in DOMAIN data.val
    THEN FlatItems(data.val["flat"])
    ELSE IF data.isa = "list" THEN FlatItems(data.val)
    ELSE <<LegacyItem(data.val, Dest)>>

\* the calls recreate_from_json starts with, by the shape of the document
recreate_from_json(data) ==
    IF data.isa = "dict" /\ "flat" \in DOMAIN data.val
    THEN FlatItems(data.val["flat"])
    ELSE IF data.isa = "list" THEN FlatItems(data.val)
    ELSE IF data.isa = "dict" /\ "tree" \in DOMAIN data.val
    THEN <<TreeItem(data.val["tree"], Dest)>>
    ELSE <<LegacyItem(data.val, Dest)>>

(***************************************************************************)
(* Reconstruction: recreate_from_json on a document that was loaded or     *)
(* could not be, into destination Dest of a filesystem that may hold       *)
(* entries already.                                                        *)
(***************************************************************************)
Str_b == <<"b">>
Str_a_b == <<"a", "/", "b">>

RecreateFlatPaths ==
    { Str_a, Str_a_b, <<"/", "a", "/", "/", "b", "/">>, <<"b", "/", "a">>, <<>> }

RecreateFlatLists == UNION { [1..k -> RecreateFlatPaths] : k \in 0..MaxFlat }

\* legacy nodes with path keys: leaves, and nodes with up to
\* MaxLegacyChildren leaves below them
RecreateLegacyLeaves ==
    { ("path" :> Str_a_b) @@ ("type" :> "file"),
      ("path" :> Str_a_b) @@ ("type" :> "directory"),
      ("path" :> Str_a),
      ("type" :> "file") }

RecreateLegacyDicts ==
    { a @@ c @@ d :
        a \in {<<>>, ("path" :> Str_a), ("path" :> <<"/", "a", "/", "b">>)},
        c \in OptType,
        d \in {<<>>} \cup
              { ("children" :> cs) :
                  cs \in UNION { [1..k -> RecreateLegacyLeaves]
                                 : k \in 1..MaxLegacyChildren } } }

\* the documents: objects, arrays, another value, and a file json.load fails on
RecreateDictDocuments ==
    { Document("dict", ("tree" :> t) @@ ("flat" :> f)) :
        t \in {node_to_tree_dict(Scanned(Entry(Str_a, TRUE, <<>>), <<>>), TRUE)},
        f \in RecreateFlatLists }
    \cup { Document("dict", ("flat" :> f)) : f \in RecreateFlatLists }
    \cup { Document("dict", ("tree" :> t)) : t \in TreeDicts }
    \cup { Document("dict", d) : d \in RecreateLegacyDicts }

RecreateListDocuments == { Document("list", f) : f \in RecreateFlatLists }

RecreateOtherDocuments == { Document("other", <<>>), Document("unreadable", <<>>) }

\* what is on disk before the call
InitialFileSystems ==
    { BaseFs,
      BaseFs @@ (<<Dest>> :> Dir),
      BaseFs @@ (<<Dest>> :> Dir) @@ (<<Dest, Str_a>> :> File(OldContent)),
      BaseFs @@ (<<Dest>> :> Dir) @@ (<<Dest, Str_a>> :> Dir)
             @@ (<<Dest, Str_a, Str_b>> :> File(OldContent)),
      BaseFs @@ (<<Dest>> :> Dir) @@ (<<Dest, Str_a>> :> Dir)
             @@ (<<Dest, Str_a, Str_b>> :> Dir),
      BaseFs @@ (<<Dest>> :> Dir) @@ (<<Dest, Str_a>> :> Dir)
             @@ (<<Dest, Str_a, Str_a>> :> File(OldContent)) }

InitRecreate ==
    /\ \/ jdata \in RecreateDictDocuments
       \/ jdata \in RecreateListDocuments
       \/ jdata \in RecreateOtherDocuments
    /\ dry_run \in BOOLEAN
    /\ fs \in InitialFileSystems
    /\ fs0 = fs
    /\ fs1 = None
    /\ work = <<>>
    /\ raised = ""
    /\ node = None
    /\ tree = None
    /\ ExportIdle
    /\ ScanIdle
    /\ pc = "start"

\* recreate_from_json up to its first call: the document is read and the
\* mode chosen, or RepositoryError is raised
Recreate ==
    /\ pc = "start"
    /\ IF jdata.isa \in {"dict", "list"}
       THEN /\ work' = recreate_from_json(jdata)
            /\ pc' = "running"
            /\ UNCHANGED raised
       ELSE /\ raised' = "RepositoryError"
            /\ pc' = "failed"
            /\ UNCHANGED work
    /\ UNCHANGED <<node, tree, exportVars, importVars, dry_run, fs, fs0, fs1,
                   scanVars>>

\* the end of a call: its exception, if any, ends recreate_from_json
Finish(error, newfs, calls) ==
    /\ fs' = newfs
    /\ IF error = ""
       THEN /\ work' = calls \o Tail(work)
            /\ UNCHANGED <<raised, pc>>
       ELSE /\ raised' = error
            /\ pc' = "failed"
            /\ UNCHANGED work
    /\ UNCHANGED <<node, tree, exportVars, importVars, dry_run, fs0, fs1,
                   scanVars>>

CreateFromFlatList ==
    /\ pc = "running" /\ work /= <<>> /\ Head(work).kind = "flat"
    /\ LET r == create_from_flat_list(fs, Head(work).rel, Dest, dry_run)
       IN Finish(IF r.ok THEN "" ELSE "RepositoryError", r.fs, <<>>)

CreateFromTree ==
    /\ pc = "running" /\ work /= <<>> /\ Head(work).kind = "tree"
    /\ LET r == create_from_tree(fs, Head(work).node, Head(work).dest, dry_run)
       IN Finish(IF r.ok THEN "" ELSE "RepositoryError", r.fs, r.calls)

LegacyCreate ==
    /\ pc = "running" /\ work /= <<>> /\ Head(work).kind = "legacy"
    /\ LET r == legacy_create(fs, Head(work).node, Head(work).dest, dry_run)
       IN Finish(r.error, r.fs, r.calls)

Return ==
    /\ pc = "running" /\ work = <<>>
    /\ pc' = "done"
    /\ UNCHANGED <<node, tree, exportVars, importVars, recreateVars, scanVars>>

NextRecreate ==
    \/ Recreate
    \/ CreateFromFlatList
    \/ CreateFromTree
    \/ LegacyCreate
    \/ Return

SpecRecreate == InitRecreate /\ [][NextRecreate]_vars

FlatMode(data) ==
    \/ data.isa = "dict" /\ "flat" \in DOMAIN data.val
    \/ data.isa = "list"

FlatListOf(data) == IF data.isa = "dict" THEN data.val["flat"] ELSE data.val

\* C6: a call with dry_run = true leaves the filesystem as it was before
\* the call, whatever the shape of the document and however far the call
\* has got: no directory is created, no file is created or truncated.
C6_DryRunFrame == dry_run => fs = fs0

\* a dry run over a flat list naming a/b has returned, and the file D/a/b
\* that was there before still has its content
C6_Witness ==
    /\ pc = "done" /\ dry_run /\ FlatMode(jdata)
    /\ \E i \in 1..Len(FlatListOf(jdata)) : FlatListOf(jdata)[i] = Str_a_b
    /\ <<Dest, Str_a, Str_b>> \in DOMAIN fs
    /\ fs[<<Dest, Str_a, Str_b>>] = File(OldContent)

\* dest/p has been materialized in f: its ancestors are directories and it
\* is an empty file
Materialized(f, p) ==
    LET path == resolve(Dest \o <<"/">> \o p)
    IN /\ \A q \in Prefixes(path) \ {path} : isdir(f, q)
       /\ path \in DOMAIN f
       /\ f[path] = File(<<>>)

\* C7: when a call with dry_run = false on a document in flat mode (an
\* object with flat, or a top-level list) has returned, every path p of the
\* flat list has all ancestor directories of dest/p and an empty file at
\* dest/p, also where a file with content was there before.
C7_FlatMaterialization ==
    (pc = "done" /\ ~dry_run /\ FlatMode(jdata))
        => \A i \in 1..Len(FlatListOf(jdata)) :
               Materialized(fs, FlatListOf(jdata)[i])

\* the call has returned after truncating the file D/a/b that had content
C7_Witness ==
    /\ pc = "done" /\ ~dry_run /\ FlatMode(jdata)
    /\ \E i \in 1..Len(FlatListOf(jdata)) : FlatListOf(jdata)[i] = Str_a_b
    /\ <<Dest, Str_a, Str_b>> \in DOMAIN fs0
    /\ fs0[<<Dest, Str_a, Str_b>>] = File(OldContent)
    /\ fs[<<Dest, Str_a, Str_b>>] = File(<<>>)

\* C14: when a call with dry_run = false fails while it creates a
\* directory or a file, in flat, nested-tree or legacy mode, the caller
\* gets a RepositoryError, and what was on disk and what the call created
\* before the failure is still there.
C14_FailureIsRepositoryError ==
    (pc = "failed" /\ ~dry_run /\ jdata.isa \in {"dict", "list"})
        => /\ raised = "RepositoryError"
           /\ \A q \in DOMAIN fs0 : q \in DOMAIN fs

\* the calls are the flat-mode calls for list, one for each path in order
FlatCalls(calls, list) ==
    /\ Len(calls) = Len(list)
    /\ \A i \in 1..Len(list) :
         calls[i].kind = "flat" /\ calls[i].rel = list[i]

\* the first step of the call on a document that could be read
Dispatched ==
    LET val == jdata.val
    IN IF jdata.isa = "dict" /\ "flat" \in DOMAIN val
       THEN pc' = "running" /\ FlatCalls(work', val["flat"])
       ELSE IF jdata.isa = "dict" /\ "tree" \in DOMAIN val
       THEN /\ pc' = "running" /\ Len(work') = 1
            /\ work'[1].kind = "tree"
            /\ work'[1].node = val["tree"] /\ work'[1].dest = Dest
       ELSE IF jdata.isa = "list"
       THEN pc' = "running" /\ FlatCalls(work', val)
       ELSE IF jdata.isa = "dict"
       THEN /\ pc' = "running" /\ Len(work') = 1
            /\ work'[1].kind = "legacy" /\ work'[1].node = val
       ELSE pc' = "failed" /\ raised' = "RepositoryError" /\ fs' = fs

\* whatever the call has created is a path of the flat list or an ancestor
\* of one
OnlyFromFlat ==
    \A q \in DOMAIN fs \ DOMAIN fs0 :
        \E i \in 1..Len(jdata.val["flat"]) :
            q \in Prefixes(resolve(Dest \o <<"/">> \o jdata.val["flat"][i]))

\* C15: recreate_from_json dispatches on the shape of the document: an
\* object with flat is materialized from flat only, also when it holds tree
\* (nothing that occurs only in tree is created); an object with tree and
\* no flat starts nested-tree mode at the destination; a top-level list is
\* flat mode; any other object is legacy mode; a document that is neither
\* object nor list fails with RepositoryError and creates nothing.
C15_Dispatch ==
    /\ [][(pc = "start" /\ jdata.isa /= "unreadable") => Dispatched]_vars
    /\ []((jdata.isa = "dict" /\ DOMAIN jdata.val = {"tree", "flat"})
            => OnlyFromFlat)
    /\ []((pc = "failed" /\ jdata.isa = "other") => fs = fs0)

\* a document with flat ["b/a"] and a tree of the empty directory a has
\* been materialized: D/b/a is there and D/a is not
C15_Witness ==
    /\ pc = "done" /\ ~dry_run
    /\ jdata.isa = "dict" /\ DOMAIN jdata.val = {"tree", "flat"}
    /\ jdata.val["tree"]["type"] = "directory"
    /\ <<Dest, Str_b, Str_a>> \in DOMAIN fs
    /\ <<Dest, Str_a>> \notin DOMAIN fs

(***************************************************************************)
(* LocalFileSystemScanner.  What is at a path is an entry: its name, its   *)
(* kind, the entries os.scandir yields for it in enumeration order, and    *)
(* the fault the filesystem answers with when the scan visits it:          *)
(* "vanished" when it is not there (any more), "denied" when listing the   *)
(* directory or taking the size of the file raises PermissionError.        *)
(***************************************************************************)
Str_w == <<"w">>
Str_s == <<"s">>
Str_a_py == <<"a", ".", "p", "y">>
Str_b_txt == <<"b", ".", "t", "x", "t">>
Str_d_txt == <<"d", ".", "t", "x", "t">>
Ext_py == <<".", "p", "y">>
Ext_txt == <<".", "t", "x", "t">>

DiskEntry(name, is_dir, fault, entries) ==
    [name |-> name, is_dir |-> is_dir, fault |-> fault, entries |-> entries]

\* os.path.basename(p)
os_path_basename(p) == SubSeq(p, rfind(p, "/") + 1, Len(p))

\* any(name.endswith(ext) for ext in extensions)
any_endswith(name, extensions) ==
    \E i \in 1..Len(extensions) : endswith(name, extensions[i])

\* the extension filters applied to directories as well
filtered_out_directories_too(entry, include, exclude) ==
    \/ include /= <<>> /\ ~any_endswith(entry.name, include)
    \/ exclude /= <<>> /\ any_endswith(entry.name, exclude)

\* the extension filters of the loop over entries: the entry is passed over
filtered_out(entry, include, exclude) ==
    \/ include /= <<>> /\ ~entry.is_dir /\ ~any_endswith(entry.name, include)
    \/ exclude /= <<>> /\ ~entry.is_dir /\ any_endswith(entry.name, exclude)

RECURSIVE scan_sync(_, _, _, _)
RECURSIVE scan_entries_reversed(_, _, _, _)
RECURSIVE scan_entries(_, _, _, _)

\* the loop over entries with each child put before the ones already there
scan_entries_reversed(n, entries, include, exclude) ==
    IF entries = <<>> THEN [raised |-> "", node |-> n]
    ELSE LET entry == Head(entries)
             child == scan_sync(entry, os_path_join(n.path, entry.name),
                                include, exclude)
         IN IF entry.name = <<>> \/ filtered_out(entry, include, exclude)
            THEN scan_entries(n, Tail(entries), include, exclude)
            ELSE IF child.raised = "PermissionError"
            THEN scan_entries(n, Tail(entries), include, exclude)
            ELSE IF child.raised /= ""
            THEN [raised |-> child.raised, node |-> n]
            ELSE scan_entries([n EXCEPT !.children = <<child.node>> \o @],
                              Tail(entries), include, exclude)

\* the loop over entries left at the first child that raises PermissionError
scan_entries_stop_at_denied(n, entries, include, exclude) ==
    IF entries = <<>> THEN [raised |-> "", node |-> n]
    ELSE LET entry == Head(entries)
             child == scan_sync(entry, os_path_join(n.path, entry.name),
                                include, exclude)
         IN IF entry.name = <<>> \/ filtered_out(entry, include, exclude)
            THEN scan_entries(n, Tail(entries), include, exclude)
            ELSE IF child.raised = "PermissionError"
            THEN [raised |-> "", node |-> n]
            ELSE IF child.raised /= ""
            THEN [raised |-> child.raised, node |-> n]
            ELSE scan_entries(add_child(n, child.node), Tail(entries),
                              include, exclude)

\* the loop over entries of _scan_sync, from the entries still to visit:
\* raised is the exception that leaves the loop, "" when it runs to its end
scan_entries(n, entries, include, exclude) ==
    IF entries = <<>> THEN [raised |-> "", node |-> n]
    ELSE LET entry == Head(entries)
             child == scan_sync(entry, os_path_join(n.path, entry.name),
                                include, exclude)
         IN IF entry.name = <<>> \/ filtered_out(entry, include, exclude)
            THEN scan_entries(n, Tail(entries), include, exclude)
            ELSE IF child.raised = "PermissionError"
            THEN scan_entries(n, Tail(entries), include, exclude)
            ELSE IF child.raised /= ""
            THEN [raised |-> child.raised, node |-> n]
            ELSE scan_entries(add_child(n, child.node), Tail(entries),
                              include, exclude)

\* _scan_sync(path, include_extensions, exclude_extensions) with e at path
scan_sync(e, path, include, exclude) ==
    LET name == IF os_path_basename(path) /= <<>>
                THEN os_path_basename(path) ELSE path
        n == TreeNode(name, path, e.is_dir,
                      IF e.is_dir THEN None ELSE Sizes, <<>>)
    IN IF e.fault = "vanished"
       THEN [raised |-> "FileNotFoundError", node |-> n]
       ELSE IF ~e.is_dir
       THEN [raised |-> IF e.fault = "denied" THEN "PermissionError" ELSE "",
             node |-> n]
       ELSE IF e.fault = "denied" THEN [raised |-> "", node |-> n]
       ELSE scan_entries(n, e.entries, include, exclude)

\* scan returning what was built when _scan_sync raised
scan_returns_partial(e, path, include, exclude) ==
    LET r == scan_sync(e, path, include, exclude)
    IN [raised |-> "", cause |-> "", node |-> r.node]

\* LocalFileSystemScanner.scan: the node returned, or ScannerError raised
\* from the exception that left _scan_sync
scan(e, path, include, exclude) ==
    LET r == scan_sync(e, path, include, exclude)
    IN IF r.raised = ""
       THEN [raised |-> "", cause |-> "", node |-> r.node]
       ELSE [raised |-> "ScannerError", cause |-> r.raised, node |-> r.node]

\* what a scanned path can hold: files and directories two levels deep
FileFaults == {"", "denied", "vanished"}

InnerListings ==
    {<<>>} \cup
    { <<DiskEntry(nm, FALSE, f, <<>>)>> :
        nm \in {Str_a_py, Str_b_txt}, f \in FileFaults }

OuterEntries ==
    { DiskEntry(nm, FALSE, f, <<>>) :
        nm \in {Str_a_py, Str_b_txt}, f \in FileFaults }
    \cup { DiskEntry(nm, TRUE, "", cs) :
             nm \in {Str_s, Str_d_txt}, cs \in InnerListings }
    \cup { DiskEntry(nm, TRUE, "denied", <<>>) : nm \in {Str_s, Str_d_txt} }

\* a directory holds each name once
DistinctNames(entries) ==
    \A i, j \in 1..Len(entries) : entries[i].name = entries[j].name => i = j

Listings ==
    { es \in UNION { [1..k -> OuterEntries] : k \in 0..MaxEntries } :
        DistinctNames(es) }

\* the entry at the scanned path: a directory, one that may not be listed,
\* a file, or nothing
Disks ==
    { DiskEntry(Str_w, TRUE, "", es) : es \in Listings }
    \cup { DiskEntry(Str_w, TRUE, "denied", <<>>),
           DiskEntry(Str_w, FALSE, "", <<>>),
           DiskEntry(Str_w, FALSE, "vanished", <<>>) }

ScanPaths == { Str_w, <<"w", "/">> }

ExtensionLists(ext) == { <<>>, <<ext>> }

(***************************************************************************)
(* ZipArchiveScanner.  An archive is what zipfile answers for the file: is *)
(* it a zip file, can it be opened, and the members of its directory.      *)
(***************************************************************************)
Str_z_zip == <<"z", ".", "z", "i", "p">>

ZipInfo(filename, file_size) == [filename |-> filename, file_size |-> file_size]

Archive(is_zipfile, fault, infolist) ==
    [is_zipfile |-> is_zipfile, fault |-> fault, infolist |-> infolist]

\* the loop over the parts of one member, from part i: nodes maps the paths
\* seen so far to the place of their node below root
RECURSIVE zip_parts(_, _, _, _, _)
zip_parts_no_reuse(st, info, parts, i, curr_path) ==
    IF i > Len(parts) THEN st
    ELSE LET part == parts[i]
             parent_key == curr_path
             next_path == IF curr_path /= <<>>
                          THEN curr_path \o <<"/">> \o part ELSE part
             is_dir == i < Len(parts) \/ endswith(info.filename, <<"/">>)
             n == TreeNode(part, next_path, is_dir,
                           IF is_dir THEN None ELSE info.file_size, <<>>)
             where == st.nodes[parent_key]
             place == where \o <<Len(node_at(st.root, where).children) + 1>>
         IN zip_parts([root |-> add_child_at(st.root, where, n),
                       nodes |-> (next_path :> place) @@ st.nodes],
                      info, parts, i + 1, next_path)

zip_parts(st, info, parts, i, curr_path) ==
    IF i > Len(parts) THEN st
    ELSE LET part == parts[i]
             parent_key == curr_path
             next_path == IF curr_path /= <<>>
                          THEN curr_path \o <<"/">> \o part ELSE part
             is_dir == i < Len(parts) \/ endswith(info.filename, <<"/">>)
             n == TreeNode(part, next_path, is_dir,
                           IF is_dir THEN None ELSE info.file_size, <<>>)
             where == st.nodes[parent_key]
             place == where \o <<Len(node_at(st.root, where).children) + 1>>
         IN IF next_path \in DOMAIN st.nodes
            THEN zip_parts(st, info, parts, i + 1, next_path)
            ELSE zip_parts([root |-> add_child_at(st.root, where, n),
                            nodes |-> st.nodes @@ (next_path :> place)],
                           info, parts, i + 1, next_path)

\* the loop over zf.infolist()
RECURSIVE zip_infos(_, _)
zip_infos(st, infolist) ==
    IF infolist = <<>> THEN st
    ELSE LET info == Head(infolist)
             parts == split(rstrip(info.filename, {"/"}), "/")
         IN zip_infos(zip_parts(st, info, parts, 1, <<>>), Tail(infolist))

\* ZipArchiveScanner._scan_sync(path) with archive a at path
zip_scan_sync(a, path) ==
    LET root == TreeNode(os_path_basename(path), path, TRUE, None, <<>>)
    IN IF ~a.is_zipfile
       THEN [raised |-> "FileNotFoundError", node |-> root]
       ELSE IF a.fault /= ""
       THEN [raised |-> a.fault, node |-> root]
       ELSE [raised |-> "",
             node |-> zip_infos([root |-> root, nodes |-> (<<>> :> <<>>)],
                                a.infolist).root]

\* ZipArchiveScanner.scan
zip_scan(a, path) ==
    LET r == zip_scan_sync(a, path)
    IN IF r.raised = ""
       THEN [raised |-> "", cause |-> "", node |-> r.node]
       ELSE [raised |-> "ScannerError", cause |-> r.raised, node |-> r.node]

ZipFilenames ==
    { Str_a, <<"a", "/">>, <<"a", "/", "b">>, <<"a", "/", "c">>, <<"b">> }

Archives ==
    { Archive(TRUE, "", il) :
        il \in UNION { [1..k -> { ZipInfo(fn, Sizes) : fn \in ZipFilenames }]
                       : k \in 0..MaxInfos } }
    \cup { Archive(FALSE, "", <<>>), Archive(TRUE, "BadZipFile", <<>>) }

(***************************************************************************)
(* Scanning: the factory has chosen a scanner, and scan is called on a     *)
(* path of a directory tree or on an archive.                              *)
(***************************************************************************)
InitScan ==
    /\ \/ /\ scanner = "local"
          /\ \/ disk \in { [path |-> p, entry |-> e] :
                              p \in ScanPaths,
                              e \in { d \in Disks : d.is_dir \/ d.fault = "vanished" } }
             \/ disk \in { [path |-> Str_w, entry |-> e] :
                              e \in { d \in Disks : ~d.is_dir /\ d.fault = "" } }
          /\ include_extensions \in ExtensionLists(Ext_py)
          /\ exclude_extensions \in ExtensionLists(Ext_txt)
          /\ max_concurrency \in 1..MaxConcurrency
          /\ archive = None
       \/ /\ scanner = "zip"
          /\ archive \in Archives
          /\ disk = None
          /\ include_extensions = <<>>
          /\ exclude_extensions = <<>>
          /\ max_concurrency = 10
    /\ cause = ""
    /\ frames = <<>>
    /\ snapshots = {}
    /\ output = "both"
    /\ results = None
    /\ RecreateIdle
    /\ node = None
    /\ tree = None
    /\ ExportIdle
    /\ ImportIdle
    /\ pc = "start"

\* the end of scan: the tree is returned or ScannerError is raised
ScanEnd(r) ==
    /\ raised' = r.raised
    /\ cause' = r.cause
    /\ IF r.raised = ""
       THEN tree' = r.node /\ pc' = "scanned"
       ELSE tree' = tree /\ pc' = "failed"
    /\ UNCHANGED <<node, exportVars, importVars, dry_run, fs, fs0, fs1, work,
                   scanner, disk, include_extensions, exclude_extensions,
                   max_concurrency, archive, frames, snapshots, output,
                   results>>

LocalScan ==
    /\ pc = "start" /\ scanner = "local"
    /\ ScanEnd(scan(disk.entry, disk.path, include_extensions,
                    exclude_extensions))

ZipScan ==
    /\ pc = "start" /\ scanner = "zip"
    /\ ScanEnd(zip_scan(archive, Str_z_zip))

NextScan == LocalScan \/ ZipScan

SpecScan == InitScan /\ [][NextScan]_vars

\* no entry at or below e answers with a fault
RECURSIVE FaultFree(_)
FaultFree(e) ==
    e.fault = "" /\ \A i \in 1..Len(e.entries) : FaultFree(e.entries[i])

\* the name passes the filters: no suffix of exclude, and some suffix of
\* include unless include is empty
Passes(name, include, exclude) ==
    /\ \A i \in 1..Len(exclude) : ~endswith(name, exclude[i])
    /\ include = <<>> \/ \E i \in 1..Len(include) : endswith(name, include[i])

\* the children of n are the directories of e and its files that pass, in
\* order, and so on below each directory
RECURSIVE FiltersApplied(_, _)
FiltersApplied(n, e) ==
    LET kept == SelectSeq(e.entries,
                    LAMBDA x : x.is_dir \/ Passes(x.name, include_extensions,
                                                  exclude_extensions))
    IN /\ Len(n.children) = Len(kept)
       /\ \A i \in 1..Len(kept) :
            /\ n.children[i].name = kept[i].name
            /\ n.children[i].is_dir = kept[i].is_dir
            /\ FiltersApplied(n.children[i], kept[i])

\* C11: in the tree a local scan returns for a directory tree without
\* faults, at every depth a file entry is present iff its name ends with no
\* suffix of exclude_extensions and, when include_extensions is not empty,
\* with some suffix of it; every directory entry is present and descended
\* into whatever its name.
C11_ExtensionFilters ==
    (pc = "scanned" /\ scanner = "local" /\ FaultFree(disk.entry))
        => FiltersApplied(tree, disk.entry)

\* a directory holding a.py and b.txt was scanned with include [".py"] and
\* the tree holds exactly a.py
C11_Witness ==
    /\ pc = "scanned" /\ scanner = "local"
    /\ include_extensions = <<Ext_py>> /\ exclude_extensions = <<>>
    /\ disk.entry.is_dir /\ FaultFree(disk.entry)
    /\ Len(disk.entry.entries) = 2
    /\ disk.entry.entries[1].name = Str_a_py
    /\ disk.entry.entries[2].name = Str_b_txt
    /\ Len(tree.children) = 1
    /\ tree.children[1].name = Str_a_py

\* what the caller can tell an exception by: its class and the class of
\* its __cause__
KindOf(r) == <<r.raised, r.cause>>

\* the kind of the failure of a local scan of a path that does not exist,
\* and of an archive scan of a file that is not a zip file
NotFoundKind ==
    KindOf(scan(DiskEntry(Str_w, FALSE, "vanished", <<>>), Str_w, <<>>, <<>>))
NotArchiveKind == KindOf(zip_scan(Archive(FALSE, "", <<>>), Str_z_zip))

\* C13: a scan that fails for another reason than a scan path that does
\* not exist or an archive that is not a zip file (ScanFailed) can be told
\* by the caller from those two failures (NotFound, NotArchive).
C13_FailureKinds ==
    (/\ pc = "failed"
     /\ scanner = "local" => disk.entry.fault /= "vanished"
     /\ scanner = "zip" => archive.is_zipfile)
        => <<raised, cause>> \notin {NotFoundKind, NotArchiveKind}

\* an entry the scan keeps: a directory, or a file that passes the filters,
\* unless taking its size raises PermissionError
Retained(x) ==
    /\ x.is_dir \/ Passes(x.name, include_extensions, exclude_extensions)
    /\ ~(~x.is_dir /\ x.fault = "denied")

\* the children of n are the retained entries of e in the order os.scandir
\* yields them, and so on below; a directory that may not be listed has none
RECURSIVE InEnumerationOrder(_, _)
InEnumerationOrder(n, e) ==
    LET kept == IF e.fault = "denied" THEN <<>>
                ELSE SelectSeq(e.entries, Retained)
    IN /\ Len(n.children) = Len(kept)
       /\ \A i \in 1..Len(kept) :
            /\ n.children[i].name = kept[i].name
            /\ n.children[i].is_dir = kept[i].is_dir
            /\ InEnumerationOrder(n.children[i], kept[i])

\* C16: a local scan of an existing directory that returns, returns a root
\* node for that directory in which the children of every directory node
\* are the retained entries of the directory in enumeration order; this
\* does not depend on max_concurrency.
C16_EnumerationOrder ==
    (pc = "scanned" /\ scanner = "local" /\ disk.entry.is_dir)
        => /\ tree.is_dir /\ tree.path = disk.path
           /\ InEnumerationOrder(tree, disk.entry)

\* a directory listing b.txt before a.py has been scanned with
\* max_concurrency above 1, and both are in the tree
C16_Witness ==
    /\ pc = "scanned" /\ scanner = "local" /\ max_concurrency > 1
    /\ Len(tree.children) = 2
    /\ tree.children[1].name = Str_b_txt
    /\ tree.children[2].name = Str_a_py

\* every entry at or below e is there when the scan visits it
RECURSIVE NoneVanished(_)
NoneVanished(e) ==
    e.fault /= "vanished" /\ \A i \in 1..Len(e.entries) : NoneVanished(e.entries[i])

\* C17: permission errors do not fail a local scan of a directory.  When
\* they are the only faults, the scan returns: a directory whose listing
\* raises PermissionError is a node without children, a child whose scan
\* raises PermissionError is left out, and the entries enumerated after it
\* are scanned and included.
C17_PermissionErrors ==
    (/\ pc /= "start" /\ scanner = "local"
     /\ disk.entry.is_dir /\ NoneVanished(disk.entry))
        => /\ pc = "scanned" /\ raised = ""
           /\ InEnumerationOrder(tree, disk.entry)

\* the scan has left out a.py, whose scan raised PermissionError, and has
\* gone on to directory s, which may not be listed and is there, empty
C17_Witness ==
    /\ pc = "scanned" /\ scanner = "local"
    /\ include_extensions = <<>> /\ exclude_extensions = <<>>
    /\ disk.entry.is_dir /\ Len(disk.entry.entries) = 2
    /\ disk.entry.entries[1] = DiskEntry(Str_a_py, FALSE, "denied", <<>>)
    /\ disk.entry.entries[2] = DiskEntry(Str_s, TRUE, "denied", <<>>)
    /\ Len(tree.children) = 1
    /\ tree.children[1].name = Str_s /\ tree.children[1].children = <<>>

\* the scan of e comes to an entry that is not there: e itself, or below a
\* directory that can be listed an entry the filters do not pass over
RECURSIVE MeetsVanished(_)
MeetsVanished(e) ==
    \/ e.fault = "vanished"
    \/ /\ e.is_dir /\ e.fault = ""
       /\ \E i \in 1..Len(e.entries) :
            /\ e.entries[i].is_dir
               \/ Passes(e.entries[i].name, include_extensions,
                         exclude_extensions)
            /\ MeetsVanished(e.entries[i])

\* C18: when a local scan meets, at any depth, a failure that is not a
\* permission error (an enumerated entry that is not there when visited),
\* the call raises one ScannerError wrapping the cause and returns no tree.
C18_OtherFailures ==
    (pc /= "start" /\ scanner = "local" /\ MeetsVanished(disk.entry))
        => /\ pc = "failed"
           /\ raised = "ScannerError" /\ cause = "FileNotFoundError"
           /\ tree = None

\* the scan has failed on an entry of directory s, after a.py beside s
\* had been scanned
C18_Witness ==
    /\ pc = "failed" /\ scanner = "local"
    /\ include_extensions = <<>> /\ exclude_extensions = <<>>
    /\ disk.entry.is_dir /\ Len(disk.entry.entries) = 2
    /\ disk.entry.entries[1] = DiskEntry(Str_a_py, FALSE, "", <<>>)
    /\ disk.entry.entries[2] =
           DiskEntry(Str_s, TRUE, "",
                     <<DiskEntry(Str_b_txt, FALSE, "vanished", <<>>)>>)
    /\ raised = "ScannerError"

\* the '/'-delimited paths that occur in the archive, each as its segments:
\* the names of the members and their prefixes
ZipPaths(infolist) ==
    UNION { LET parts == split(rstrip(infolist[i].filename, {"/"}), "/")
            IN { SubSeq(parts, 1, k) : k \in 1..Len(parts) }
            : i \in 1..Len(infolist) }

\* C23: ZipArchiveScanner returns a root named after the archive file with
\* is_dir = true; every distinct path that occurs as a member or as a prefix
\* of a member has exactly one node, found below the node of its parent path
\* (below the root for a top-level path), and no node has two children of
\* the same name.
C23_ZipNodesOnce ==
    (pc = "scanned" /\ scanner = "zip") =>
        /\ tree.name = os_path_basename(Str_z_zip)
        /\ tree.is_dir
        /\ UniqueSiblingNames(tree)
        /\ NodeCount(tree) = 1 + Cardinality(ZipPaths(archive.infolist))
        /\ \A parts \in ZipPaths(archive.infolist) :
              /\ Cardinality(NodesAt(tree, parts)) = 1
              /\ \A n \in NodesAt(tree, parts) : n.path = join(parts, "/")

C23_Witness ==
    /\ pc = "scanned"
    /\ scanner = "zip"
    /\ Len(archive.infolist) = 2
    /\ archive.infolist[1].filename = <<"a", "/", "b">>
    /\ archive.infolist[2].filename = <<"a", "/", "c">>
    /\ Len(tree.children) = 1
    /\ Len(tree.children[1].children) = 2

\* the files a step writes: the paths that hold a file after it which they
\* did not hold in that form before
Written(before, after) ==
    { q \in DOMAIN after :
        /\ ~after[q].is_dir
        /\ q \notin DOMAIN before \/ before[q] /= after[q] }

\* the directory of the node that a call of _create_from_tree is for, when
\* the node is a directory
TreeDirectory(item) ==
    IF Get(item.node, "name", <<>>) /= <<>>
    THEN os_path_join(item.dest, item.node["name"])
    ELSE item.dest

\* C24: causal ordering of reconstruction, dry_run = false, flat or nested
\* tree mode.  A file is written only below directories that are there; in
\* nested-tree mode the directory of a node is there when a child of the
\* node is processed; creating a directory that is there already is not an
\* error and changes nothing.
C24_CausalOrder ==
    [][(pc = "running" /\ ~dry_run /\ work /= <<>>
           /\ Head(work).kind \in {"flat", "tree"}) =>
          /\ \A q \in Written(fs, fs') :
                /\ fs'[q] = File(<<>>)
                /\ \A k \in 1..(Len(q) - 1) : isdir(fs', SubSeq(q, 1, k))
          /\ (Head(work).kind = "tree" /\ work /= recreate_from_json(jdata)) =>
                isdir(fs, resolve(Head(work).dest))
          /\ (/\ Head(work).kind = "tree"
              /\ Get(Head(work).node, "type", "file") = "directory"
              /\ isdir(fs, resolve(TreeDirectory(Head(work))))) =>
                (pc' = "running" /\ fs' = fs)]_vars

\* a child of a directory node is about to be processed, in a directory the
\* call has created
C24_Witness ==
    /\ pc = "running"
    /\ ~dry_run
    /\ work /= <<>>
    /\ Head(work).kind = "tree"
    /\ work /= recreate_from_json(jdata)
    /\ resolve(Head(work).dest) \notin DOMAIN fs0
    /\ Len(resolve(Head(work).dest)) = 2

LegacyMode(data) ==
    data.isa = "dict" /\ DOMAIN data.val \cap {"flat", "tree"} = {}

\* the segments of a path field that are not empty
Segments(p) == SelectSeq(split(p, "/"), LAMBDA seg : seg /= <<>>)

\* the nodes of a legacy document that legacy_create gets to, each as the
\* pair of its own path field and whether its type is directory: the node
\* itself and, for a directory node with a path, the nodes of its children
RECURSIVE LegacyVisited(_)
LegacyVisited(d) ==
    IF Get(d, "path", <<>>) = <<>> THEN {}
    ELSE {<<d["path"], Get(d, "type", "") = "directory">>}
         \cup IF Get(d, "type", "") = "directory"
              THEN UNION { LegacyVisited(Get(d, "children", <<>>)[i]) :
                              i \in 1..Len(Get(d, "children", <<>>)) }
              ELSE {}

\* C25: legacy reconstruction mode.  The target of a node is the
\* destination followed by the segments of the node's own path field, its
\* leading slashes dropped, whatever the node's ancestors are: a directory
\* node becomes a directory there, any other node an empty file, and
\* nothing is created but the targets and the directories above them.
C25_LegacyTargets ==
    (pc = "done" /\ ~dry_run /\ LegacyMode(jdata)) =>
        /\ \A v \in LegacyVisited(jdata.val) :
              LET target == <<Dest>> \o Segments(v[1])
              IN /\ exists(fs, target)
                 /\ fs[target] = IF v[2] THEN Dir ELSE File(<<>>)
        /\ DOMAIN fs = DOMAIN fs0 \cup
                UNION { Prefixes(<<Dest>> \o Segments(v[1])) :
                           v \in LegacyVisited(jdata.val) }

\* a child whose path does not start with its parent's path was created
\* below the destination, next to the parent
C25_Witness ==
    /\ pc = "done"
    /\ ~dry_run
    /\ LegacyMode(jdata)
    /\ Get(jdata.val, "path", <<>>) = <<"/", "a", "/", "b">>
    /\ Get(jdata.val, "type", "") = "directory"
    /\ Len(Get(jdata.val, "children", <<>>)) = 1
    /\ Get(jdata.val["children"][1], "path", <<>>) = Str_a_b
    /\ fs0 = BaseFs
    /\ DOMAIN fs = DOMAIN BaseFs \cup {<<Dest>>, <<Dest, Str_a>>, <<Dest, Str_a, Str_b>>}

(***************************************************************************)
(* A local scan while another process changes the scanned directory tree.  *)
(* _scan_sync looks at a path when it gets to it: a step of the scan is    *)
(* the start of one call of _scan_sync (exists, isdir, getsize, scandir)   *)
(* or the return of one; the other process adds or removes a file between  *)
(* two steps.                                                              *)
(***************************************************************************)
\* the entry that names lead to from e, as a set: empty when one of the
\* names is not listed
RECURSIVE entry_at(_, _)
entry_at(e, names) ==
    IF names = <<>> THEN {e}
    ELSE UNION { entry_at(e.entries[i], Tail(names)) :
                    i \in { j \in 1..Len(e.entries) :
                               e.entries[j].name = Head(names) } }

\* e with es as the entries of the directory that names lead to
RECURSIVE with_entries(_, _, _)
with_entries(e, names, es) ==
    IF names = <<>> THEN [e EXCEPT !.entries = es]
    ELSE [e EXCEPT !.entries =
             [i \in 1..Len(e.entries) |->
                 IF e.entries[i].name = Head(names)
                 THEN with_entries(e.entries[i], Tail(names), es)
                 ELSE e.entries[i]]]

\* an open call of _scan_sync: where it is, the node it builds and the
\* names of list(os.scandir(path)) it has still to visit
Frame(names, n, pending) == [names |-> names, node |-> n, pending |-> pending]

\* the start of _scan_sync(path), names leading to path from the root e:
\* FileNotFoundError, or the node and the listing taken now
scan_enter(e, names, path) ==
    LET found == entry_at(e, names)
        here == CHOOSE x \in found : TRUE
        name == IF os_path_basename(path) /= <<>>
                THEN os_path_basename(path) ELSE path
    IN IF found = {}
       THEN [raised |-> "FileNotFoundError", is_dir |-> FALSE,
             node |-> TreeNode(name, path, FALSE, None, <<>>),
             pending |-> <<>>]
       ELSE [raised |-> "", is_dir |-> here.is_dir,
             node |-> TreeNode(name, path, here.is_dir,
                               IF here.is_dir THEN None ELSE Sizes, <<>>),
             pending |-> IF here.is_dir
                         THEN [i \in 1..Len(here.entries) |->
                                  here.entries[i].name]
                         ELSE <<>>]

\* directory trees of directories and files, all of which may be read
WatchedDisks ==
    { d \in Disks :
        /\ d.is_dir
        /\ FaultFree(d)
        /\ \A i \in 1..Len(d.entries) : d.entries[i].is_dir }

\* where the other process adds and removes files, and the names it uses
WatchedDirectories(e) ==
    {<<>>} \cup { <<e.entries[i].name>> : i \in 1..Len(e.entries) }

WatchedFiles == { Str_a_py }

InitWatch ==
    /\ scanner = "local"
    /\ disk \in { [path |-> Str_w, entry |-> e] : e \in WatchedDisks }
    /\ include_extensions = <<>>
    /\ exclude_extensions = <<>>
    /\ max_concurrency = 10
    /\ archive = None
    /\ cause = ""
    /\ frames = <<>>
    /\ snapshots = {}
    /\ output = "both"
    /\ results = None
    /\ RecreateIdle
    /\ node = None
    /\ tree = None
    /\ ExportIdle
    /\ ImportIdle
    /\ pc = "start"

watchFrame == <<node, exportVars, importVars, dry_run, fs, fs0, fs1, work,
                scanner, include_extensions, exclude_extensions, max_concurrency,
                archive, output, results>>

\* scan is called: _scan_sync starts on the scanned path
ScanBegin ==
    /\ pc = "start"
    /\ LET r == scan_enter(disk.entry, <<>>, disk.path)
       IN /\ frames' = <<Frame(<<>>, r.node, r.pending)>>
          /\ snapshots' = {disk.entry}
          /\ pc' = "scanning"
    /\ UNCHANGED <<watchFrame, raised, cause, tree, disk>>

\* the loop of the innermost call goes on to its next entry
ScanVisit ==
    /\ pc = "scanning"
    /\ frames[Len(frames)].pending /= <<>>
    /\ LET top == frames[Len(frames)]
           name == Head(top.pending)
           r == scan_enter(disk.entry, Append(top.names, name),
                           os_path_join(top.node.path, name))
           rest == [frames EXCEPT ![Len(frames)].pending = Tail(@)]
       IN IF r.raised /= ""
          THEN /\ frames' = <<>>
               /\ raised' = "ScannerError"
               /\ cause' = r.raised
               /\ pc' = "failed"
          ELSE /\ frames' = IF r.is_dir
                            THEN Append(rest, Frame(Append(top.names, name),
                                                    r.node, r.pending))
                            ELSE [rest EXCEPT ![Len(frames)].node =
                                                  add_child(@, r.node)]
               /\ UNCHANGED <<raised, cause, pc>>
    /\ UNCHANGED <<watchFrame, tree, disk, snapshots>>

\* the innermost call returns its node to its caller, the outermost to scan
ScanReturn ==
    /\ pc = "scanning"
    /\ frames[Len(frames)].pending = <<>>
    /\ LET top == frames[Len(frames)]
       IN IF Len(frames) = 1
          THEN /\ tree' = top.node
               /\ frames' = <<>>
               /\ pc' = "scanned"
          ELSE /\ frames' = [SubSeq(frames, 1, Len(frames) - 1)
                                EXCEPT ![Len(frames) - 1].node =
                                           add_child(@, top.node)]
               /\ UNCHANGED <<tree, pc>>
    /\ UNCHANGED <<watchFrame, raised, cause, disk, snapshots>>

\* the other process creates a file
AddFile ==
    /\ pc = "scanning"
    /\ Cardinality(snapshots) <= MaxChanges
    /\ \E names \in WatchedDirectories(disk.entry), name \in WatchedFiles :
          LET es == CHOOSE x \in entry_at(disk.entry, names) : TRUE
          IN /\ \A i \in 1..Len(es.entries) : es.entries[i].name /= name
             /\ disk' = [disk EXCEPT !.entry =
                            with_entries(@, names,
                                Append(es.entries,
                                       DiskEntry(name, FALSE, "", <<>>)))]
    /\ snapshots' = snapshots \cup {disk'.entry}
    /\ UNCHANGED <<watchFrame, raised, cause, tree, frames, pc>>

\* the other process removes a file
RemoveFile ==
    /\ pc = "scanning"
    /\ Cardinality(snapshots) <= MaxChanges
    /\ \E names \in WatchedDirectories(disk.entry), name \in WatchedFiles :
          LET es == CHOOSE x \in entry_at(disk.entry, names) : TRUE
          IN /\ \E i \in 1..Len(es.entries) : es.entries[i].name = name
             /\ disk' = [disk EXCEPT !.entry =
                            with_entries(@, names,
                                SelectSeq(es.entries,
                                          LAMBDA x : x.name /= name))]
    /\ snapshots' = snapshots \cup {disk'.entry}
    /\ UNCHANGED <<watchFrame, raised, cause, tree, frames, pc>>

NextWatch == ScanBegin \/ ScanVisit \/ ScanReturn \/ AddFile \/ RemoveFile

SpecWatch == InitWatch /\ [][NextWatch]_vars

\* C26: a scan that completes while another process adds and removes
\* entries returns the tree of what the scanned path held at one instant
\* between the start and the end of the scan.
C26_ConsistentSnapshot ==
    pc = "scanned" =>
        \E e \in snapshots :
            tree = scan(e, disk.path, include_extensions,
                        exclude_extensions).node

(***************************************************************************)
(* GenerateStructureUseCase.generate: scan, outputs directory, JSON file,  *)
(* markdown file, and the UseCaseResult that timeit_async wraps around the *)
(* results.  The process runs in directory Cwd.                            *)
(***************************************************************************)
Cwd == <<"/", "c">>
Str_outputs == <<"o", "u", "t", "p", "u", "t", "s">>
Ext_json == <<".", "j", "s", "o", "n">>
Ext_md == <<".", "m", "d">>
Ext_zip == <<".", "z", "i", "p">>

UpperCase == <<"A", "B", "C", "D", "E", "F", "G", "H", "I", "J", "K", "L", "M", "N", "O", "P", "Q", "R", "S", "T", "U", "V", "W", "X", "Y", "Z">>
LowerCase == <<"a", "b", "c", "d", "e", "f", "g", "h", "i", "j", "k", "l", "m", "n", "o", "p", "q", "r", "s", "t", "u", "v", "w", "x", "y", "z">>
Digits == <<"0", "1", "2", "3", "4", "5", "6", "7", "8", "9">>

\* str.lower() on ASCII
str_lower(s) ==
    [i \in 1..Len(s) |->
        IF \E j \in 1..Len(UpperCase) : UpperCase[j] = s[i]
        THEN LowerCase[CHOOSE j \in 1..Len(UpperCase) : UpperCase[j] = s[i]]
        ELSE s[i]]

\* the loop of posixpath.normpath over the components
RECURSIVE normpath_comps(_, _, _)
normpath_comps(comps, new_comps, initial_slashes) ==
    IF comps = <<>> THEN new_comps
    ELSE LET comp == Head(comps)
         IN IF comp = <<>> \/ comp = <<".">>
            THEN normpath_comps(Tail(comps), new_comps, initial_slashes)
            ELSE IF \/ comp /= <<".", ".">>
                    \/ initial_slashes = 0 /\ new_comps = <<>>
                    \/ new_comps /= <<>> /\ new_comps[Len(new_comps)] = <<".", ".">>
            THEN normpath_comps(Tail(comps), Append(new_comps, comp),
                                initial_slashes)
            ELSE IF new_comps /= <<>>
            THEN normpath_comps(Tail(comps),
                                SubSeq(new_comps, 1, Len(new_comps) - 1),
                                initial_slashes)
            ELSE normpath_comps(Tail(comps), new_comps, initial_slashes)

\* os.path.normpath(p) on POSIX
os_path_normpath(p) ==
    LET initial_slashes ==
            IF ~startswith(p, <<"/">>) THEN 0
            ELSE IF startswith(p, <<"/", "/">>) /\ ~startswith(p, <<"/", "/", "/">>)
            THEN 2 ELSE 1
        comps == normpath_comps(split(p, "/"), <<>>, initial_slashes)
        path == [i \in 1..initial_slashes |-> "/"] \o join(comps, "/")
    IN IF p = <<>> \/ path = <<>> THEN <<".">> ELSE path

\* os.path.abspath(p) of a process in Cwd
os_path_abspath(p) ==
    os_path_normpath(IF startswith(p, <<"/">>) THEN p ELSE os_path_join(Cwd, p))

\* the characters the pattern [^A-Za-z0-9_\\-]+ leaves alone
FilenameChars ==
    { UpperCase[i] : i \in 1..Len(UpperCase) }
    \cup { LowerCase[i] : i \in 1..Len(LowerCase) }
    \cup { Digits[i] : i \in 1..Len(Digits) }
    \cup { "_", "\\", "-" }

\* re.sub(r'[^A-Za-z0-9_\\-]+', '_', p): each run of other characters
\* becomes one underscore
RECURSIVE sub_runs(_, _)
sub_runs(p, in_run) ==
    IF p = <<>> THEN <<>>
    ELSE IF Head(p) \in FilenameChars
    THEN <<Head(p)>> \o sub_runs(Tail(p), FALSE)
    ELSE IF in_run THEN sub_runs(Tail(p), TRUE)
    ELSE <<"_">> \o sub_runs(Tail(p), TRUE)

sanitize_path_for_filename(path) ==
    LET normal == os_path_normpath(path)
        no_colon == SelectSeq(normal, LAMBDA c : c /= ":")
        seps == concat([i \in 1..Len(no_colon) |->
                           IF no_colon[i] = "/" THEN <<"_", "_">>
                           ELSE <<no_colon[i]>>])
        clean == sub_runs(seps, FALSE)
    IN IF Len(clean) > 200 THEN SubSeq(clean, 1, 200) ELSE clean

\* ScannerFactory.get_scanner(path, kind), isfile being os.path.isfile(path)
get_scanner(path, kind, isfile) ==
    IF kind = "auto"
    THEN IF isfile /\ endswith(str_lower(path), Ext_zip) THEN "zip" ELSE "local"
    ELSE kind

\* ensure_outputs_dir(outputs_dir): the absolute path, created if missing
ensure_outputs_dir(f, outputs_dir) ==
    LET made == os_makedirs(f, os_path_abspath(outputs_dir))
    IN [ok |-> made.ok, fs |-> made.fs, dir |-> os_path_abspath(outputs_dir)]

\* the text json.dumps(data, ensure_ascii=False, indent=2) gives, kept as
\* the value it encodes
json_dumps(data) == <<"json.dumps", data>>

write_json_file(f, path, data) == write_text_file(f, path, json_dumps(data))

\* the JSON file written whatever output is
writes_json_always(out) == TRUE

\* output in (OutputFormat.JSON, OutputFormat.BOTH)
writes_json(out) == out \in {"json", "both"}

\* output in (OutputFormat.MARKDOWN, OutputFormat.BOTH)
writes_markdown(out) == out \in {"markdown", "both"}

UseCaseResult(res, elapsed) == [results |-> res, elapsed |-> elapsed]

\* time.monotonic() differences
Elapsed == {0, 1}

\* the path generate is called with, and whether a file is there
GeneratePath == disk.path

GenerateIsFile == ~disk.entry.is_dir /\ disk.entry.fault /= "vanished"

OutputsDir == os_path_abspath(Str_outputs)
JsonPath ==
    os_path_join(OutputsDir, sanitize_path_for_filename(GeneratePath) \o Ext_json)
MdPath ==
    os_path_join(OutputsDir, sanitize_path_for_filename(GeneratePath) \o Ext_md)

\* what Cwd holds before the call
GenerateBaseFs == BaseFs @@ (resolve(Cwd) :> Dir)

GenerateFileSystems ==
    { GenerateBaseFs,
      GenerateBaseFs @@ (resolve(OutputsDir) :> Dir),
      GenerateBaseFs @@ (resolve(OutputsDir) :> File(OldContent)),
      GenerateBaseFs @@ (resolve(OutputsDir) :> Dir)
          @@ (resolve(os_path_join(OutputsDir, <<"w">> \o Ext_json)) :> File(OldContent)),
      GenerateBaseFs @@ (resolve(OutputsDir) :> Dir)
          @@ (resolve(os_path_join(OutputsDir, <<"w">> \o Ext_md)) :> Dir) }

InitGenerate ==
    /\ scanner = "auto"
    /\ \/ /\ disk \in { [path |-> p, entry |-> e] :
                          p \in ScanPaths,
                          e \in { d \in Disks :
                                    /\ Len(d.entries) <= 1
                                    /\ d.is_dir \/ d.fault = "vanished"
                                    /\ FaultFree(d) \/ d.fault = "vanished" } }
          /\ archive = None
       \/ /\ archive \in { a \in Archives : Len(a.infolist) <= 1 }
          /\ disk = [path |-> Str_z_zip,
                     entry |-> DiskEntry(Str_z_zip, FALSE, "", <<>>)]
    /\ include_extensions = <<>>
    /\ exclude_extensions = <<>>
    /\ max_concurrency = 10
    /\ cause = ""
    /\ frames = <<>>
    /\ snapshots = {}
    /\ output \in {"json", "markdown", "both"}
    /\ results = None
    /\ keep_extensions \in BOOLEAN
    /\ fs \in GenerateFileSystems
    /\ fs0 = fs
    /\ fs1 = None
    /\ dry_run = FALSE
    /\ work = <<>>
    /\ raised = ""
    /\ node = None
    /\ tree = None
    /\ json_obj = <<>>
    /\ flat_list = <<>>
    /\ md_text = <<>>
    /\ reflat = <<>>
    /\ ImportIdle
    /\ pc = "start"

generateFrame == <<node, flat_list, reflat, importVars, keep_extensions,
                   dry_run, fs0, fs1, work, disk, include_extensions,
                   exclude_extensions, max_concurrency, archive, frames,
                   snapshots, output>>

\* lines 71-72: the scanner is chosen and the path scanned
GenerateScan ==
    /\ pc = "start"
    /\ scanner' = get_scanner(GeneratePath, scanner, GenerateIsFile)
    /\ LET r == IF scanner' = "zip"
                THEN zip_scan(archive, GeneratePath)
                ELSE scan(disk.entry, disk.path, include_extensions,
                          exclude_extensions)
       IN IF r.raised = ""
          THEN /\ tree' = r.node
               /\ pc' = "ensure"
               /\ UNCHANGED <<raised, cause>>
          ELSE /\ raised' = r.raised
               /\ cause' = r.cause
               /\ pc' = "failed"
               /\ UNCHANGED tree
    /\ UNCHANGED <<generateFrame, fs, json_obj, md_text, results>>

\* lines 78-81: the outputs directory is made sure of, results is empty
EnsureOutputsDir ==
    /\ pc = "ensure"
    /\ LET made == ensure_outputs_dir(fs, Str_outputs)
       IN IF made.ok
          THEN /\ fs' = made.fs
               /\ results' = {}
               /\ pc' = "json"
               /\ UNCHANGED raised
          ELSE /\ raised' = "OSError"
               /\ pc' = "failed"
               /\ UNCHANGED <<fs, results>>
    /\ UNCHANGED <<generateFrame, scanner, tree, cause, json_obj, md_text>>

\* lines 82-87: results is kept as the set of its items
WriteJson ==
    /\ pc = "json"
    /\ IF writes_json(output)
       THEN LET obj == serialize_to_json(tree, keep_extensions)
                written == write_json_file(fs, JsonPath, obj)
            IN /\ json_obj' = obj
               /\ IF written.ok
                  THEN /\ fs' = written.fs
                       /\ results' = results \cup {<<"json", JsonPath>>}
                       /\ pc' = "markdown"
                       /\ UNCHANGED raised
                  ELSE /\ raised' = "RepositoryError"
                       /\ pc' = "failed"
                       /\ UNCHANGED <<fs, results>>
       ELSE /\ pc' = "markdown"
            /\ UNCHANGED <<fs, results, raised, json_obj>>
    /\ UNCHANGED <<generateFrame, scanner, tree, cause, md_text>>

\* lines 89-94
WriteMarkdown ==
    /\ pc = "markdown"
    /\ IF writes_markdown(output)
       THEN LET text == serialize_to_markdown(tree, keep_extensions)
                written == write_text_file(fs, MdPath, text)
            IN /\ md_text' = text
               /\ IF written.ok
                  THEN /\ fs' = written.fs
                       /\ results' = results \cup {<<"markdown", MdPath>>}
                       /\ pc' = "return"
                       /\ UNCHANGED raised
                  ELSE /\ raised' = "RepositoryError"
                       /\ pc' = "failed"
                       /\ UNCHANGED <<fs, results>>
       ELSE /\ pc' = "return"
            /\ UNCHANGED <<fs, results, raised, md_text>>
    /\ UNCHANGED <<generateFrame, scanner, tree, cause, json_obj>>

\* line 96 and timeit_async: the results are wrapped with the time taken
GenerateReturn ==
    /\ pc = "return"
    /\ \E elapsed \in Elapsed : results' = UseCaseResult(results, elapsed)
    /\ pc' = "done"
    /\ UNCHANGED <<generateFrame, scanner, tree, cause, json_obj, md_text,
                   fs, raised>>

NextGenerate ==
    \/ GenerateScan
    \/ EnsureOutputsDir
    \/ WriteJson
    \/ WriteMarkdown
    \/ GenerateReturn

SpecGenerate == InitGenerate /\ [][NextGenerate]_vars

\* the files generate writes for the tree it scanned
JsonFile == File(json_dumps(serialize_to_json(tree, keep_extensions)))
MdFile == File(serialize_to_markdown(tree, keep_extensions))

\* path p holds in f what it held in g, or nothing in both
SameAt(f, g, p) ==
    /\ exists(f, resolve(p)) = exists(g, resolve(p))
    /\ exists(f, resolve(p)) => f[resolve(p)] = g[resolve(p)]

\* C27: generate scans, then makes sure of the outputs directory, then
\* writes the JSON file, then the markdown file.  When the scan fails no
\* directory and no file is created.  A call that returns has written the
\* JSON file iff output is json or both and the markdown file iff output is
\* markdown or both, and returns a UseCaseResult whose results hold the key
\* json for the written JSON file and markdown for the written markdown
\* file, and no other key.
C27_GenerateOrder ==
    /\ [](raised = "ScannerError" => fs = fs0)
    /\ [](pc = "done" =>
            /\ IF output \in {"json", "both"}
               THEN exists(fs, resolve(JsonPath)) /\ fs[resolve(JsonPath)] = JsonFile
               ELSE SameAt(fs, fs0, JsonPath)
            /\ IF output \in {"markdown", "both"}
               THEN exists(fs, resolve(MdPath)) /\ fs[resolve(MdPath)] = MdFile
               ELSE SameAt(fs, fs0, MdPath)
            /\ results.results =
                  { <<"json", JsonPath>> : x \in {output} \cap {"json", "both"} }
                  \cup { <<"markdown", MdPath>> :
                            x \in {output} \cap {"markdown", "both"} }
            /\ results.elapsed \in Elapsed)
    /\ [][/\ fs' /= fs => pc \in {"ensure", "json", "markdown"}
          /\ ~SameAt(fs', fs, OutputsDir) => pc = "ensure"
          /\ ~SameAt(fs', fs, JsonPath) =>
                /\ isdir(fs, resolve(OutputsDir))
                /\ SameAt(fs, fs0, MdPath)
          /\ ~SameAt(fs', fs, MdPath) =>
                /\ isdir(fs, resolve(OutputsDir))
                /\ output = "both" => fs[resolve(JsonPath)] = JsonFile]_vars

C27_Witness ==
    /\ pc = "done"
    /\ output = "both"
    /\ fs0 = GenerateBaseFs
    /\ tree.children /= <<>>
    /\ Cardinality(results.results) = 2

(***************************************************************************)
(* Reconstruction from documents whose names lead out of the destination:  *)
(* ".." segments in a flat path, in a node name or in a legacy path, and   *)
(* a node name that is an absolute path.                                   *)
(***************************************************************************)
Str_x == <<"x">>
Str_up == <<".", ".">>
Str_up_x == <<".", ".", "/", "x">>
Str_a_up_x == <<"a", "/", ".", ".", "/", "x">>
Str_a_up_up_x == <<"a", "/", ".", ".", "/", ".", ".", "/", "x">>
Str_abs_e == <<"/", "e">>

ContainFlatPaths == { Str_a_b, Str_up_x, Str_a_up_x, Str_a_up_up_x }

ContainFlatLists == UNION { [1..k -> ContainFlatPaths] : k \in 1..MaxFlat }

\* nested tree nodes: a leaf of either type, and a directory above leaves
ContainNames == { Str_a, Str_up, Str_abs_e }

ContainTreeLeaves ==
    { ("name" :> nm) @@ ("type" :> ty) @@ ("children" :> <<>>) :
        nm \in ContainNames, ty \in {"file", "directory"} }

ContainTreeDicts ==
    ContainTreeLeaves \cup
    { ("name" :> nm) @@ ("type" :> "directory") @@ ("children" :> <<c>>) :
        nm \in ContainNames, c \in ContainTreeLeaves }

ContainLegacyDicts ==
    { ("path" :> p) @@ ("type" :> ty) :
        p \in { Str_a_b, Str_up_x, Str_a_up_up_x, Str_abs_e },
        ty \in {"file", "directory"} }

InitContain ==
    /\ \/ jdata \in { Document("list", f) : f \in ContainFlatLists }
       \/ jdata \in { Document("dict", ("flat" :> f)) : f \in ContainFlatLists }
       \/ jdata \in { Document("dict", ("tree" :> t)) : t \in ContainTreeDicts }
       \/ jdata \in { Document("dict", d) : d \in ContainLegacyDicts }
    /\ dry_run \in BOOLEAN
    /\ fs \in InitialFileSystems
    /\ fs0 = fs
    /\ fs1 = None
    /\ work = <<>>
    /\ raised = ""
    /\ node = None
    /\ tree = None
    /\ ExportIdle
    /\ ScanIdle
    /\ pc = "start"

SpecContain == InitContain /\ [][NextRecreate]_vars

\* the directories and files that were not on disk before the call
Created == DOMAIN fs \ DOMAIN fs0

\* C28: every directory and every file that recreate_from_json creates lies
\* inside the destination directory (the destination itself included), for
\* flat, nested-tree and legacy documents, also when a name or a path
\* segment is ".." or a node name is an absolute path
C28_Containment ==
    \A q \in Created : Len(q) >= 1 /\ q[1] = Dest

(***************************************************************************)
(* recreate_from_json called a second time with the same document, the     *)
(* same destination and dry_run = false, on what the first call left.      *)
(***************************************************************************)
InitTwice ==
    /\ InitRecreate \/ InitContain
    /\ ~dry_run

\* the second call up to its first call: the document is read again and the
\* mode chosen as in the first call
Again ==
    /\ pc = "done" /\ fs1 = None
    /\ fs1' = {fs}
    /\ work' = recreate_from_json(jdata)
    /\ pc' = "running"
    /\ UNCHANGED <<node, tree, exportVars, importVars, dry_run, fs, fs0,
                   raised, scanVars>>

NextTwice ==
    \/ NextRecreate
    \/ Again

SpecTwice == InitTwice /\ [][NextTwice]_vars

\* C29: when a first run of recreate_from_json with dry_run = false has
\* succeeded, a second run with the same arguments succeeds too and leaves
\* the directories and files the first run left, every file that the runs
\* created being empty
C29_Idempotent ==
    (fs1 /= None /\ pc \in {"done", "failed"}) =>
        /\ pc = "done" /\ raised = ""
        /\ fs \in fs1
        /\ \A q \in Created : ~fs[q].is_dir => fs[q].content = <<>>

\* a second run has ended on a document that made the first run create a
\* directory and a file
C29_Witness ==
    /\ fs1 /= None /\ pc = "done"
    /\ \E q \in Created : fs[q].is_dir
    /\ \E q \in Created : ~fs[q].is_dir

====
